---- MODULE Spec2Model ----
(***************************************************************************)
(* Model of server/index.js: the Stripe webhook pipeline (signature check, *)
(* processed_events.json idempotency gate, handleCheckoutCompleted,        *)
(* sendEmailWithRetry, recordFailedEmail), the archive rate limiter        *)
(* (checkArchiveRateLimit) and the entitlement resolver of POST            *)
(* /archive/verify; and of the variant part_000, where /archive/verify     *)
(* takes the email from a Firebase identity token and /archive/debug       *)
(* lists what the provider holds for an email.                             *)
(*                                                                         *)
(* Node.js runs one handler at a time and switches handlers only at an     *)
(* await on pending I/O, so every action below is one run-to-suspension    *)
(* segment of a handler.  File-system calls are taken to succeed.          *)
(***************************************************************************)
EXTENDS Integers, Sequences, FiniteSets, TLC

\* ---------------------------------------------------------------- bounds
MaxDeliveries == 2      \* webhook requests delivered in one behaviour

\* one handler invocation per delivered request, in order of arrival; any
\* number of them may be suspended at the same time
Handlers == 1..MaxDeliveries

\* ------------------------------------------------------- static catalog
PRICE_ID_FULL_DAY                  == "price_full_day"
PRICE_ID_PRACTICAL_AI_ARCHITECTURE == "price_practical"
PRICE_ID_IMAGE_GEN_AI              == "price_image"
PRICE_ID_GOOGLE_HP_GAS             == "price_gas"

Undefined == "undefined"     \* result of a lookup of a missing key
NoValue   == ""              \* null / undefined / empty string (falsy)

PRODUCT_NAME_MAP ==
  (PRICE_ID_FULL_DAY :> "AI FES. full day")
    @@ (PRICE_ID_PRACTICAL_AI_ARCHITECTURE :> "Practical AI x Architecture")
    @@ (PRICE_ID_IMAGE_GEN_AI :> "Image generation AI")
    @@ (PRICE_ID_GOOGLE_HP_GAS :> "Google HP and GAS")

ZOOM_LINK_MAP ==
  (PRICE_ID_FULL_DAY :> <<"A", "B", "C", "D", "E", "F">>)
    @@ (PRICE_ID_PRACTICAL_AI_ARCHITECTURE :> <<"C", "F">>)
    @@ (PRICE_ID_IMAGE_GEN_AI :> <<"D", "F">>)
    @@ (PRICE_ID_GOOGLE_HP_GAS :> <<"E", "F">>)

\* obj[key] of a JavaScript object literal: undefined when the key is absent
Lookup(map, k) == IF k \in DOMAIN map THEN map[k] ELSE Undefined

Range(s) == {s[i] : i \in DOMAIN s}

\* UTF-16 code units of the meeting keys, the order Array.prototype.sort uses
CodeUnits ==
  ("A" :> <<65>>) @@ ("B" :> <<66>>) @@ ("C" :> <<67>>) @@ ("D" :> <<68>>)
    @@ ("E" :> <<69>>) @@ ("F" :> <<70>>)
    @@ ("E1" :> <<69, 49>>) @@ ("E2" :> <<69, 50>>)

\* a < b in the default (string) comparison of Array.prototype.sort
RECURSIVE CodeLess(_, _)
CodeLess(a, b) ==
  IF a = <<>> THEN b # <<>>
  ELSE IF b = <<>> THEN FALSE
  ELSE IF Head(a) # Head(b) THEN Head(a) < Head(b)
  ELSE CodeLess(Tail(a), Tail(b))

StrLess(x, y) == CodeLess(CodeUnits[x], CodeUnits[y])

\* Array.from(set).sort()
RECURSIVE SortKeys(_)
SortKeys(S) ==
  IF S = {} THEN <<>>
  ELSE LET m == CHOOSE x \in S : \A y \in S \ {x} : StrLess(x, y)
       IN <<m>> \o SortKeys(S \ {m})

\* ------------------------------------------------ provider-side events
CHECKOUT_COMPLETED == "checkout.session.completed"

\* The events the provider can deliver.  lineItems are the price ids of the
\* session's line items (NoValue: an item without price).
Events ==
  ("evt_two"  :> [type |-> CHECKOUT_COMPLETED, customer_details_email |-> "buyer@x",
                  customer_email |-> NoValue,
                  lineItems |-> <<PRICE_ID_IMAGE_GEN_AI, PRICE_ID_PRACTICAL_AI_ARCHITECTURE>>])
    @@ ("evt_other" :> [type |-> CHECKOUT_COMPLETED, customer_details_email |-> NoValue,
                  customer_email |-> "guest@x",
                  lineItems |-> <<"price_unmapped", NoValue>>])
    @@ ("evt_nomail" :> [type |-> CHECKOUT_COMPLETED, customer_details_email |-> NoValue,
                  customer_email |-> NoValue,
                  lineItems |-> <<PRICE_ID_FULL_DAY>>])
    @@ ("evt_invoice" :> [type |-> "invoice.paid", customer_details_email |-> "buyer@x",
                  customer_email |-> NoValue, lineItems |-> <<>>])

EventIds == DOMAIN Events

\* stripe-signature header of a request: matching, not matching, absent
Signatures == {"good", "bad", "none"}
Requests == [sig : Signatures, id : EventIds]

\* variant: only the presence of the header is checked
constructEventOk_HeaderOnly(r) == r.sig # "none"

\* stripe.webhooks.constructEvent: throws unless the signature matches
constructEventOk(r) == r.sig = "good"

\* --------------------------------------------------- sendEmailWithRetry
maxRetries == 3
delays == <<1000, 2000, 4000>>

\* variant: every wait has the first delay
backoffDelay_Constant(a) == delays[1]

\* delays[attempt], the array being indexed from 0
backoffDelay(a) == delays[a + 1]

\* what the transport answers to one call: 2xx, another status, or a throw
Outcomes == {"ok", "nok", "throw"}

\* error.message of a failed attempt
ErrorOf(outcome) ==
  IF outcome = "nok" THEN "SendGrid API Error" ELSE "fetch failed"

VARIABLES
  processedFile,    \* data.processed of processed_events.json
  failedFile,       \* array stored in failed_emails.json
  pc,               \* per handler: where the request is suspended
  req,              \* per handler: the request it serves
  resp,             \* per handler: the response sent (status 0: none yet)
  mail,             \* per handler: the notification built by the action
  attempt,          \* per handler: loop variable of sendEmailWithRetry
  lastErr,          \* per handler: error caught by the latest failed attempt
  sendResult,       \* per handler: how sendEmailWithRetry ended
  trace,            \* per handler: the calls it made, in order
  waits,            \* per handler: the delays of the timers it set, in ms
  processedEvents,  \* per handler: the Set loaded for the idempotency check
  archiveRateLimit, \* the limiter's Map: key -> timestamps
  now,              \* Date.now()
  lastCall,         \* last checkArchiveRateLimit call and its result
  allowedLog,       \* per key: the times of all allowed calls
  vh,               \* per /archive/verify handler: its locals and response
  world,            \* what the payment provider holds
  session,          \* a completed checkout session with its line items
  notice,           \* the notification handleCheckoutCompleted builds for it
  FIREBASE_CONFIG,  \* TRUE when FIREBASE_SERVICE_ACCOUNT is set
  body,             \* per /archive/verify handler: req.body of its request
  dbg               \* the /archive/debug handler: its locals and response

webhookVars == <<processedFile, failedFile, pc, req, resp, mail, attempt,
                 lastErr, sendResult, trace, waits,
                 processedEvents>>
rateVars == <<archiveRateLimit, now, lastCall, allowedLog>>
verifyVars == <<vh, world>>
catalogVars == <<session, notice>>
variantVars == <<FIREBASE_CONFIG, body, dbg>>
vars == <<processedFile, failedFile, pc, req, resp, mail, attempt, lastErr,
          sendResult, trace, waits, processedEvents, archiveRateLimit, now, lastCall, allowedLog, vh, world,
          session, notice, FIREBASE_CONFIG, body, dbg>>

NoMail == [to |-> NoValue, productName |-> NoValue, keys |-> <<>>]
NoResp == [status |-> 0, body |-> NoValue]

\* ------------------------------------------------------ persisted files
\* variant: the stored ids are not read back
loadProcessedEvents_Empty(file) == {}

\* loadProcessedEvents(): the set of recorded ids (empty when no file)
loadProcessedEvents(file) == file

\* variant: the file is written without reading what it holds
saveProcessedEvent_Fresh(file, eventId) == {eventId}

\* saveProcessedEvent(eventId): load, add, write back
saveProcessedEvent(file, eventId) == loadProcessedEvents(file) \cup {eventId}

\* variant: the existing array is not read before the write
recordFailedEmail_Overwrite(file, email, productName, error) ==
  <<[email |-> email, product_name |-> productName, error |-> error]>>

\* recordFailedEmail(email, productName, error): read, push, write back
recordFailedEmail(file, email, productName, error) ==
  Append(file, [email |-> email, product_name |-> productName, error |-> error])

\* ---------------------------------------------- handleCheckoutCompleted
\* variant: a placeholder address stands in for a missing one
customerEmailOf_Placeholder(ev) ==
  IF ev.customer_details_email # NoValue THEN ev.customer_details_email
  ELSE IF ev.customer_email # NoValue THEN ev.customer_email
  ELSE "unknown@x"

\* session.customer_details?.email || session.customer_email
customerEmailOf(ev) ==
  IF ev.customer_details_email # NoValue THEN ev.customer_details_email
  ELSE ev.customer_email

\* lineItems.data.map(item => item.price?.id).filter(Boolean)
purchasedPriceIds(items) == SelectSeq(items, LAMBDA p : p # NoValue)

\* productName after the loop over the purchased price ids
RECURSIVE productNameOf(_)
productNameOf(ids) ==
  IF ids = <<>> THEN NoValue
  ELSE LET last == ids[Len(ids)]
           name == Lookup(PRODUCT_NAME_MAP, last)
       IN IF name # Undefined THEN name
          ELSE productNameOf(SubSeq(ids, 1, Len(ids) - 1))

\* variant: the keys of an item replace those of the items before it
meetingKeysOf_LastOnly(ids) ==
  LET mapped == {j \in DOMAIN ids : ids[j] \in DOMAIN ZOOM_LINK_MAP}
  IN IF mapped = {} THEN {}
     ELSE Range(ZOOM_LINK_MAP[ids[CHOOSE j \in mapped : \A n \in mapped : n <= j]])

\* meetingKeys after the loop over the purchased price ids
meetingKeysOf(ids) ==
  UNION {Range(ZOOM_LINK_MAP[ids[i]]) : i \in {j \in DOMAIN ids : ids[j] \in DOMAIN ZOOM_LINK_MAP}}

\* variant: the shared key is removed instead of added
buildMail_DropsShared(ev) ==
  LET ids  == purchasedPriceIds(ev.lineItems)
      name == productNameOf(ids)
      keys == meetingKeysOf(ids)
  IN IF name = NoValue \/ keys = {} THEN NoMail
     ELSE [to |-> customerEmailOf(ev), productName |-> name,
           keys |-> SortKeys(keys \ {"F"})]

\* variant: a purchase of items outside the catalog is not skipped
buildMail_NoSkip(ev) ==
  LET ids  == purchasedPriceIds(ev.lineItems)
      name == productNameOf(ids)
      keys == meetingKeysOf(ids)
  IN [to |-> customerEmailOf(ev), productName |-> name,
      keys |-> SortKeys(keys \cup {"F"})]

\* the notification of a purchase, or NoMail when the purchase is skipped
buildMail(ev) ==
  LET ids  == purchasedPriceIds(ev.lineItems)
      name == productNameOf(ids)
      keys == meetingKeysOf(ids)
  IN IF name = NoValue \/ keys = {} THEN NoMail
     ELSE [to |-> customerEmailOf(ev), productName |-> name,
           keys |-> SortKeys(keys \cup {"F"})]

\* handleCheckoutCompleted between the line items and the send: nothing for
\* a session without buyer address, else the notification of the purchase
notificationOf(ev) ==
  IF customerEmailOf(ev) = NoValue THEN NoMail ELSE buildMail(ev)

\* ------------------------------------------ sessions handed to the action
MaxItems == 2           \* line items of one checkout session

\* price ids a line item can carry: the four of the catalog, one the
\* catalog does not know, and none
LineItemPrices ==
  { PRICE_ID_FULL_DAY, PRICE_ID_PRACTICAL_AI_ARCHITECTURE, PRICE_ID_IMAGE_GEN_AI,
    PRICE_ID_GOOGLE_HP_GAS, "price_unmapped", NoValue }

CheckoutInputs ==
  [ type : {CHECKOUT_COMPLETED},
    customer_details_email : {"buyer@x", NoValue},
    customer_email : {NoValue},
    lineItems : UNION {[1..n -> LineItemPrices] : n \in 0..MaxItems} ]

NoCheckout ==
  [type |-> CHECKOUT_COMPLETED, customer_details_email |-> NoValue,
   customer_email |-> NoValue, lineItems |-> <<>>]

\* handleCheckoutCompleted(session) applied to the session at hand, up to
\* the notification it sends
BuildNotification ==
  /\ notice' = notificationOf(session)
  /\ UNCHANGED session
  /\ UNCHANGED <<webhookVars, rateVars, verifyVars>>
  /\ UNCHANGED variantVars

\* ------------------------------------------------- webhook state machine
InFlight(h) == pc[h] \in {"lineItems", "fetch", "backoff"}
Count(seq, x) == Cardinality({i \in DOMAIN seq : seq[i] = x})

\* variant: the loop gives up one attempt early
retryAgain_OneShort(a) == a < maxRetries - 2

\* variant: the loop makes one attempt more
retryAgain_OneMore(a) == a < maxRetries

\* attempt < maxRetries - 1: another attempt follows a failed one
retryAgain(a) == a < maxRetries - 1

\* processedEvents.has(event.id) on the freshly loaded set
alreadyProcessed(file, id) == id \in loadProcessedEvents(file)

\* variant: the Set loaded for the idempotency check is written back
Commit_Stale(h, tr, failed) ==
  /\ processedFile' = processedEvents[h] \cup {req[h].id}
  /\ failedFile' = failed
  /\ resp' = [resp EXCEPT ![h] = [status |-> 200, body |-> "received"]]
  /\ pc' = [pc EXCEPT ![h] = "done"]
  /\ trace' = [trace EXCEPT ![h] = Append(tr, "saveProcessedEvent")]

\* saveProcessedEvent(event.id); return res.json({ received: true })
Commit(h, tr, failed) ==
  /\ processedFile' = saveProcessedEvent(processedFile, req[h].id)
  /\ failedFile' = failed
  /\ resp' = [resp EXCEPT ![h] = [status |-> 200, body |-> "received"]]
  /\ pc' = [pc EXCEPT ![h] = "done"]
  /\ trace' = [trace EXCEPT ![h] = Append(tr, "saveProcessedEvent")]

\* variant: the event is recorded although the handler failed
HandlerError_Records(h) ==
  /\ resp' = [resp EXCEPT ![h] = [status |-> 500, body |-> "Webhook handler error"]]
  /\ pc' = [pc EXCEPT ![h] = "done"]
  /\ processedFile' = processedFile \cup {req[h].id}
  /\ UNCHANGED <<failedFile, trace>>

\* catch (err) of the webhook handler: status 500, nothing recorded
HandlerError(h) ==
  /\ resp' = [resp EXCEPT ![h] = [status |-> 500, body |-> "Webhook handler error"]]
  /\ pc' = [pc EXCEPT ![h] = "done"]
  /\ UNCHANGED <<processedFile, failedFile, trace>>

\* variant: the event is recorded before the notification is sent
StartSend_RecordsFirst(h, tr, m) ==
  /\ mail' = [mail EXCEPT ![h] = m]
  /\ pc' = [pc EXCEPT ![h] = "fetch"]
  /\ trace' = [trace EXCEPT ![h] = Append(tr, "fetch")]
  /\ processedFile' = processedFile \cup {req[h].id}
  /\ UNCHANGED <<failedFile, resp>>

\* sendEmailWithRetry is entered: attempt 0 issues the first transport call
StartSend(h, tr, m) ==
  /\ mail' = [mail EXCEPT ![h] = m]
  /\ pc' = [pc EXCEPT ![h] = "fetch"]
  /\ trace' = [trace EXCEPT ![h] = Append(tr, "fetch")]
  /\ UNCHANGED <<processedFile, failedFile, resp>>

\* variant: the delivery error is not caught and reaches the webhook handler
SendFailed_Uncaught(h, error) ==
  /\ resp' = [resp EXCEPT ![h] = [status |-> 500, body |-> "Webhook handler error"]]
  /\ pc' = [pc EXCEPT ![h] = "done"]
  /\ UNCHANGED <<processedFile, failedFile, trace>>

\* catch (error) of handleCheckoutCompleted after the last attempt threw
SendFailed(h, error) ==
  Commit(h, Append(trace[h], "recordFailedEmail"),
         recordFailedEmail(failedFile, mail[h].to, mail[h].productName, error))

\* variant: every event is handled as a completed purchase
isCheckoutCompleted_Always(ev) == TRUE

\* switch (event.type): case 'checkout.session.completed'
isCheckoutCompleted(ev) == ev.type = CHECKOUT_COMPLETED

\* A request arrives: signature check, idempotency check, dispatch on the
\* event type, up to the first await (listLineItems) or to the response.
Receive(h, r) ==
  /\ pc[h] = "idle"
  /\ \A g \in Handlers : g < h => pc[g] # "idle"
  /\ req' = [req EXCEPT ![h] = r]
  /\ UNCHANGED <<failedFile, mail, attempt, lastErr, sendResult>>
  /\ IF ~constructEventOk(r)
       THEN /\ resp' = [resp EXCEPT ![h] = [status |-> 400, body |-> "Webhook Error"]]
            /\ pc' = [pc EXCEPT ![h] = "done"]
            /\ trace' = [trace EXCEPT ![h] = <<"constructEvent">>]
            /\ UNCHANGED processedFile
     ELSE IF alreadyProcessed(processedFile, r.id)
       THEN /\ resp' = [resp EXCEPT ![h] = [status |-> 200, body |-> "already_processed"]]
            /\ pc' = [pc EXCEPT ![h] = "done"]
            /\ trace' = [trace EXCEPT ![h] = <<"constructEvent", "loadProcessedEvents">>]
            /\ UNCHANGED processedFile
     ELSE IF isCheckoutCompleted(Events[r.id])
       THEN /\ resp' = [resp EXCEPT ![h] = NoResp]
            /\ pc' = [pc EXCEPT ![h] = "lineItems"]
            /\ trace' = [trace EXCEPT ![h] =
                 <<"constructEvent", "loadProcessedEvents", "listLineItems">>]
            /\ UNCHANGED processedFile
     ELSE /\ processedFile' = saveProcessedEvent(processedFile, r.id)
          /\ resp' = [resp EXCEPT ![h] = [status |-> 200, body |-> "received"]]
          /\ pc' = [pc EXCEPT ![h] = "done"]
          /\ trace' = [trace EXCEPT ![h] =
               <<"constructEvent", "loadProcessedEvents", "saveProcessedEvent">>]
  /\ UNCHANGED waits
  /\ processedEvents' =
       [processedEvents EXCEPT ![h] =
          IF constructEventOk(r) THEN loadProcessedEvents(processedFile) ELSE @]
  /\ UNCHANGED rateVars
  /\ UNCHANGED verifyVars
  /\ UNCHANGED catalogVars
  /\ UNCHANGED variantVars

\* stripe.checkout.sessions.listLineItems rejects: the handler answers 500
LineItemsFail(h) ==
  /\ pc[h] = "lineItems"
  /\ HandlerError(h)
  /\ UNCHANGED <<req, mail, attempt, lastErr, sendResult>>
  /\ UNCHANGED <<waits, processedEvents>>
  /\ UNCHANGED rateVars
  /\ UNCHANGED verifyVars
  /\ UNCHANGED catalogVars
  /\ UNCHANGED variantVars

\* listLineItems resolves: handleCheckoutCompleted runs up to the first
\* transport call, or returns early and the handler commits
LineItemsReturn(h) ==
  /\ pc[h] = "lineItems"
  /\ LET ev == Events[req[h].id]
         m  == buildMail(ev)
     IN IF customerEmailOf(ev) = NoValue
          THEN /\ Commit(h, trace[h], failedFile)
               /\ UNCHANGED mail
        ELSE IF m = NoMail
          THEN /\ Commit(h, Append(trace[h], "catalog"), failedFile)
               /\ UNCHANGED mail
        ELSE StartSend(h, Append(trace[h], "catalog"), m)
  /\ UNCHANGED <<req, attempt, lastErr, sendResult>>
  /\ UNCHANGED <<waits, processedEvents>>
  /\ UNCHANGED rateVars
  /\ UNCHANGED verifyVars
  /\ UNCHANGED catalogVars
  /\ UNCHANGED variantVars

\* the pending transport call of attempt[h] settles with outcome o
FetchReturn(h, o) ==
  /\ pc[h] = "fetch"
  /\ IF o = "ok"
       THEN /\ Commit(h, trace[h], failedFile)
            /\ sendResult' = [sendResult EXCEPT ![h] = "sent"]
            /\ UNCHANGED <<lastErr, waits>>
     ELSE IF retryAgain(attempt[h])
       THEN /\ pc' = [pc EXCEPT ![h] = "backoff"]
            /\ trace' = [trace EXCEPT ![h] = Append(@, "wait")]
            /\ lastErr' = [lastErr EXCEPT ![h] = ErrorOf(o)]
            /\ waits' = [waits EXCEPT ![h] = Append(@, backoffDelay(attempt[h]))]
            /\ UNCHANGED <<processedFile, failedFile, resp, sendResult>>
     ELSE /\ SendFailed(h, ErrorOf(o))
          /\ sendResult' = [sendResult EXCEPT ![h] = "threw"]
          /\ lastErr' = [lastErr EXCEPT ![h] = ErrorOf(o)]
          /\ UNCHANGED waits
  /\ UNCHANGED <<req, mail, attempt, processedEvents>>
  /\ UNCHANGED rateVars
  /\ UNCHANGED verifyVars
  /\ UNCHANGED catalogVars
  /\ UNCHANGED variantVars

\* setTimeout(resolve, delays[attempt]) fires: the next attempt starts
BackoffElapsed(h) ==
  /\ pc[h] = "backoff"
  /\ attempt' = [attempt EXCEPT ![h] = @ + 1]
  /\ pc' = [pc EXCEPT ![h] = "fetch"]
  /\ trace' = [trace EXCEPT ![h] = Append(@, "fetch")]
  /\ UNCHANGED <<processedFile, failedFile, req, resp, mail, lastErr, sendResult>>
  /\ UNCHANGED <<waits, processedEvents>>
  /\ UNCHANGED rateVars
  /\ UNCHANGED verifyVars
  /\ UNCHANGED catalogVars
  /\ UNCHANGED variantVars

\* the process dies: every suspended handler is cut off without a response;
\* the two files survive
Crash ==
  /\ \E h \in Handlers : InFlight(h)
  /\ pc' = [h \in Handlers |-> IF InFlight(h) THEN "cut" ELSE pc[h]]
  /\ UNCHANGED <<processedFile, failedFile, req, resp, mail, attempt, lastErr,
                 sendResult, trace>>
  /\ UNCHANGED <<waits, processedEvents>>
  /\ UNCHANGED rateVars
  /\ UNCHANGED verifyVars
  /\ UNCHANGED catalogVars
  /\ UNCHANGED variantVars

\* ---------------------------------------------------------- rate limiter
MaxTicks == 2           \* clock steps in one behaviour

windowMs == 10 * 60 * 1000
maxRequests == 5
TickMs == windowMs \div 2

\* Emails are sequences of characters.
WhiteSpace == {" ", "\t"}
LowerCase == ("A" :> "a") @@ ("B" :> "b") @@ ("X" :> "x") @@ ("Y" :> "y")

RawEmails ==
  { <<"a", "@", "x", ".", "y">>,
    <<" ", "A", "@", "X", ".", "y", " ">>,
    <<"b", "@", "x", ".", "y">> }

\* String.prototype.toLowerCase
toLowerCase(s) ==
  [i \in DOMAIN s |-> IF s[i] \in DOMAIN LowerCase THEN LowerCase[s[i]] ELSE s[i]]

\* String.prototype.trim
RECURSIVE trim(_)
trim(s) ==
  IF s = <<>> THEN s
  ELSE IF Head(s) \in WhiteSpace THEN trim(Tail(s))
  ELSE IF s[Len(s)] \in WhiteSpace THEN trim(SubSeq(s, 1, Len(s) - 1))
  ELSE s

\* variant: the key keeps surrounding white space
keyOf_NoTrim(email) == toLowerCase(email)

\* const key = email.toLowerCase().trim()
keyOf(email) == trim(toLowerCase(email))

Keys == {keyOf(e) : e \in RawEmails}

\* variant: the ceiling is compared with > instead of >=
checkArchiveRateLimit_OffByOne(m, email, t) ==
  LET key == keyOf(email)
      m0 == IF key \in DOMAIN m THEN m ELSE m @@ (key :> <<>>)
      timestamps == SelectSeq(m0[key], LAMBDA x : t - x < windowMs)
  IN IF Len(timestamps) > maxRequests
       THEN [allowed |-> FALSE, map |-> [m0 EXCEPT ![key] = timestamps]]
     ELSE [allowed |-> TRUE, map |-> [m0 EXCEPT ![key] = Append(timestamps, t)]]

\* variant: the timestamp is pushed before the ceiling is tested
checkArchiveRateLimit_PushFirst(m, email, t) ==
  LET key == keyOf(email)
      m0 == IF key \in DOMAIN m THEN m ELSE m @@ (key :> <<>>)
      timestamps == Append(SelectSeq(m0[key], LAMBDA x : t - x < windowMs), t)
  IN IF Len(timestamps) > maxRequests
       THEN [allowed |-> FALSE, map |-> [m0 EXCEPT ![key] = timestamps]]
     ELSE [allowed |-> TRUE, map |-> [m0 EXCEPT ![key] = timestamps]]

\* variant: a timestamp exactly one window old is still counted
checkArchiveRateLimit_LateExpiry(m, email, t) ==
  LET key == keyOf(email)
      m0 == IF key \in DOMAIN m THEN m ELSE m @@ (key :> <<>>)
      timestamps == SelectSeq(m0[key], LAMBDA x : t - x <= windowMs)
  IN IF Len(timestamps) >= maxRequests
       THEN [allowed |-> FALSE, map |-> [m0 EXCEPT ![key] = timestamps]]
     ELSE [allowed |-> TRUE, map |-> [m0 EXCEPT ![key] = Append(timestamps, t)]]

\* variant: an allowed call is not recorded in the window
checkArchiveRateLimit_NoPush(m, email, t) ==
  LET key == keyOf(email)
      m0 == IF key \in DOMAIN m THEN m ELSE m @@ (key :> <<>>)
      timestamps == SelectSeq(m0[key], LAMBDA x : t - x < windowMs)
  IN IF Len(timestamps) >= maxRequests
       THEN [allowed |-> FALSE, map |-> [m0 EXCEPT ![key] = timestamps]]
     ELSE [allowed |-> TRUE, map |-> [m0 EXCEPT ![key] = timestamps]]

\* checkArchiveRateLimit(email) at Date.now() = t on the Map m:
\* the value returned and the Map afterwards
checkArchiveRateLimit(m, email, t) ==
  LET key == keyOf(email)
      m0 == IF key \in DOMAIN m THEN m ELSE m @@ (key :> <<>>)
      timestamps == SelectSeq(m0[key], LAMBDA x : t - x < windowMs)
  IN IF Len(timestamps) >= maxRequests
       THEN [allowed |-> FALSE, map |-> [m0 EXCEPT ![key] = timestamps]]
     ELSE [allowed |-> TRUE, map |-> [m0 EXCEPT ![key] = Append(timestamps, t)]]

\* raw: the email argument of the call; key: the Map key used
NoCall == [raw |-> <<>>, key |-> <<>>, allowed |-> FALSE]

\* a request for email reaches the limiter
CheckRate(email) ==
  /\ LET r == checkArchiveRateLimit(archiveRateLimit, email, now)
     IN /\ archiveRateLimit' = r.map
        /\ lastCall' = [raw |-> email, key |-> keyOf(email), allowed |-> r.allowed]
        /\ allowedLog' = IF r.allowed
                           THEN [allowedLog EXCEPT ![keyOf(email)] = Append(@, now)]
                         ELSE allowedLog
  /\ UNCHANGED now
  /\ UNCHANGED webhookVars
  /\ UNCHANGED verifyVars
  /\ UNCHANGED catalogVars
  /\ UNCHANGED variantVars

\* time passes
Tick ==
  /\ now < MaxTicks * TickMs
  /\ now' = now + TickMs
  /\ UNCHANGED <<archiveRateLimit, lastCall, allowedLog>>
  /\ UNCHANGED webhookVars
  /\ UNCHANGED verifyVars
  /\ UNCHANGED catalogVars
  /\ UNCHANGED variantVars

\* ------------------------------------------------ entitlement resolver
NumVerify == 2          \* /archive/verify handlers that can be suspended at once
Verifiers == 1..NumVerify

CIRCLE_PRODUCT_ID == "prod_TA2S72xlZ4teEN"

ARCHIVE_SESSION_MAP ==
  (PRICE_ID_FULL_DAY :> <<"A", "B", "C", "D", "E1", "E2", "F">>) @@
  (PRICE_ID_PRACTICAL_AI_ARCHITECTURE :> <<"A", "B", "C", "F">>) @@
  (PRICE_ID_IMAGE_GEN_AI :> <<"A", "B", "D", "F">>) @@
  (PRICE_ID_GOOGLE_HP_GAS :> <<"A", "B", "E1", "E2", "F">>)

\* the array literal ['A', 'B', 'C', 'D', 'E1', 'E2', 'F'] of the handler
CanonicalKeys == <<"A", "B", "C", "D", "E1", "E2", "F">>

EmailA == <<"a", "@", "x", ".", "y">>
EmailB == <<"b", "@", "x", ".", "y">>
NoEmail == <<>>          \* a missing or empty email field

\* req.body.email of the requests: two spellings of one address, another
\* address, a text without "@", one with an inner blank, and no email
VerifyInputs ==
  { EmailA,
    <<" ", "A", "@", "X", ".", "y", " ">>,
    EmailB,
    <<"a", "x", ".", "y">>,
    <<"a", " ", "@", "x", ".", "y">>,
    NoEmail }

\* The completed checkout sessions the provider knows.  lineItems are the
\* price ids of the session's line items (NoValue: an item without price).
CheckoutSessions ==
  [ cs_gas |->
      [details_email |-> EmailA, customer_email |-> NoEmail,
       payment_status |-> "paid",
       lineItems |-> <<"price_other", PRICE_ID_GOOGLE_HP_GAS>>],
    cs_unpaid |->
      [details_email |-> EmailA, customer_email |-> NoEmail,
       payment_status |-> "unpaid",
       lineItems |-> <<PRICE_ID_FULL_DAY>>],
    cs_free |->
      [details_email |-> EmailA, customer_email |-> NoEmail,
       payment_status |-> "no_payment_required",
       lineItems |-> <<NoValue, PRICE_ID_IMAGE_GEN_AI>>],
    cs_guest |->
      [details_email |-> NoEmail,
       customer_email |-> <<"A", "@", "X", ".", "y">>,
       payment_status |-> "paid",
       lineItems |-> <<PRICE_ID_PRACTICAL_AI_ARCHITECTURE>>],
    cs_guest_unpaid |->
      [details_email |-> EmailA, customer_email |-> NoEmail,
       payment_status |-> "unpaid",
       lineItems |-> <<PRICE_ID_FULL_DAY>>],
    cs_stranger |->
      [details_email |-> EmailB, customer_email |-> EmailA,
       payment_status |-> "paid",
       lineItems |-> <<PRICE_ID_FULL_DAY>>] ]

\* What the provider holds: the customer records of an email, the active
\* subscriptions of a customer (each the product ids of its items), the
\* completed checkout sessions of a customer, and the recent completed
\* checkout sessions of all buyers.
NoCustomers == [e \in {EmailA, EmailB} |-> <<>>]
NoSubscriptions == [c \in {"cus_1", "cus_2"} |-> <<>>]
NoSessions == [c \in {"cus_1", "cus_2"} |-> <<>>]

WorldEmpty ==
  [customers |-> NoCustomers, subscriptions |-> NoSubscriptions,
   sessions |-> NoSessions, recent |-> <<>>]

\* the second customer record of the address holds the membership
WorldCircle ==
  [customers |-> [NoCustomers EXCEPT ![EmailA] = <<"cus_1", "cus_2">>],
   subscriptions |->
     [NoSubscriptions EXCEPT !["cus_1"] = << <<"prod_other">> >>,
                             !["cus_2"] = << <<"prod_other">>,
                                            <<"prod_other", CIRCLE_PRODUCT_ID>> >>],
   sessions |-> [NoSessions EXCEPT !["cus_1"] = <<"cs_gas">>],
   recent |-> <<"cs_gas", "cs_guest">>]

\* purchases spread over two customer records of the address
WorldPurchases ==
  [customers |-> [NoCustomers EXCEPT ![EmailA] = <<"cus_1", "cus_2">>],
   subscriptions |->
     [NoSubscriptions EXCEPT !["cus_2"] = << <<"prod_other">> >>],
   sessions |-> [NoSessions EXCEPT !["cus_1"] = <<"cs_gas", "cs_unpaid">>,
                                   !["cus_2"] = <<"cs_free">>],
   recent |-> <<"cs_free", "cs_unpaid", "cs_gas", "cs_stranger">>]

\* purchases made without a customer record
WorldGuest ==
  [customers |-> NoCustomers, subscriptions |-> NoSubscriptions,
   sessions |-> NoSessions,
   recent |-> <<"cs_stranger", "cs_guest_unpaid", "cs_guest">>]

\* a customer record without a paid purchase, and a guest purchase
WorldShadow ==
  [customers |-> [NoCustomers EXCEPT ![EmailA] = <<"cus_1">>],
   subscriptions |-> NoSubscriptions,
   sessions |-> [NoSessions EXCEPT !["cus_1"] = <<"cs_unpaid">>],
   recent |-> <<"cs_guest", "cs_stranger">>]

Worlds == {WorldEmpty, WorldCircle, WorldPurchases, WorldGuest, WorldShadow}

\* the locals of one /archive/verify handler
NoPage == [status |-> 0, page |-> NoValue, keys |-> <<>>]
IdleVerifier ==
  [pc |-> "idle", email |-> NoEmail, allCustomers |-> <<>>, ci |-> 0, si |-> 0,
   keys |-> <<>>, calls |-> <<>>, failed |-> {}, resp |-> NoPage]

\* variant: any text with an "@" passes
isValidEmail_HasAt(s) == \E i \in DOMAIN s : s[i] = "@"

\* /^[^\s@]+@[^\s@]+\.[^\s@]+$/.test(email)
isValidEmail(s) ==
  /\ \A i \in DOMAIN s : s[i] \notin WhiteSpace
  /\ Cardinality({i \in DOMAIN s : s[i] = "@"}) = 1
  /\ \E i, j \in DOMAIN s :
       /\ s[i] = "@" /\ s[j] = "."
       /\ 1 < i /\ i + 1 < j /\ j < Len(s)

\* Set.prototype.add on a Set kept in insertion order
addKey(keys, k) == IF k \in Range(keys) THEN keys ELSE Append(keys, k)

\* ARCHIVE_SESSION_MAP[priceId].forEach(key => purchasedSessionKeys.add(key))
RECURSIVE addKeys(_, _)
addKeys(keys, ks) ==
  IF ks = <<>> THEN keys ELSE addKeys(addKey(keys, Head(ks)), Tail(ks))

\* variant: every price id is looked up in the full-day entry
addLineItems_AllFullDay(keys, items) ==
  IF items = <<>> THEN keys
  ELSE addKeys(keys, ARCHIVE_SESSION_MAP[PRICE_ID_FULL_DAY])

\* the loop over lineItems.data: the keys of the mapped price ids are added
RECURSIVE addLineItems(_, _)
addLineItems(keys, items) ==
  IF items = <<>> THEN keys
  ELSE LET priceId == Head(items)
       IN addLineItems(IF priceId # NoValue /\ priceId \in DOMAIN ARCHIVE_SESSION_MAP
                         THEN addKeys(keys, ARCHIVE_SESSION_MAP[priceId])
                       ELSE keys,
                       Tail(items))

\* variant: only paid sessions are looked at
qualifies_PaidOnly(sid) == CheckoutSessions[sid].payment_status = "paid"

\* payment_status is 'paid' or 'no_payment_required'
qualifies(sid) ==
  CheckoutSessions[sid].payment_status \in {"paid", "no_payment_required"}

\* variant: the buyer email is compared as it is stored
sessionEmail_AsStored(sid) ==
  IF CheckoutSessions[sid].details_email # NoEmail
    THEN CheckoutSessions[sid].details_email
  ELSE CheckoutSessions[sid].customer_email

\* (session.customer_details?.email || session.customer_email || '').toLowerCase()
sessionEmail(sid) ==
  toLowerCase(IF CheckoutSessions[sid].details_email # NoEmail
                THEN CheckoutSessions[sid].details_email
              ELSE CheckoutSessions[sid].customer_email)

\* variant: the keys are presented in the order of their discovery
sortedKeys_Insertion(keys) == keys

\* ['A', 'B', 'C', 'D', 'E1', 'E2', 'F'].filter(k => purchasedSessionKeys.has(k))
sortedKeys(keys) == SelectSeq(CanonicalKeys, LAMBDA k : k \in Range(keys))

\* an awaited provider call is issued and the handler suspends at pcNew
Call(rec, kind, target, pcNew) ==
  [rec EXCEPT !.pc = pcNew, !.calls = Append(@, <<kind, target>>)]

\* the pending call rejected
Rejected(rec) == [rec EXCEPT !.failed = @ \cup {rec.calls[Len(rec.calls)]}]

Respond(rec, status, page, keys) ==
  [rec EXCEPT !.pc = "done",
              !.resp = [status |-> status, page |-> page, keys |-> keys]]

\* variant: a lookup error is presented as an empty result
Fail500_NotFound(rec) == Respond(rec, 200, "notfound", <<>>)

\* catch (err) of the handler: status 500 and the server-error page
Fail500(rec) == Respond(rec, 500, "servererror", <<>>)

\* variant: an empty result is reported as a server error
Finish_EmptyIsError(rec) ==
  IF rec.keys = <<>> THEN Respond(rec, 500, "servererror", <<>>)
  ELSE Respond(rec, 200, "video", sortedKeys(rec.keys))

\* the end of the try block: the not-found page, or the video page of the
\* sorted keys
Finish(rec) ==
  IF rec.keys = <<>> THEN Respond(rec, 200, "notfound", <<>>)
  ELSE Respond(rec, 200, "video", sortedKeys(rec.keys))

\* variant: the guest sessions are looked at whenever no key was found
EndChannel2_NoCustomerTest(rec) ==
  IF rec.keys = <<>>
    THEN Call(rec, "sessions.list", "recent", "recent")
  ELSE Finish(rec)

\* after the loop over allCustomers of channel 2: the guest lookup is
\* started when no key was found and allCustomers is empty
EndChannel2(rec) ==
  IF rec.keys = <<>> /\ rec.allCustomers = <<>>
    THEN Call(rec, "sessions.list", "recent", "recent")
  ELSE Finish(rec)

\* variant: only the first customer's sessions are looked at
NextCustomer2_FirstOnly(rec) == EndChannel2(rec)

\* channel 2 goes on with the customer after rec.ci
NextCustomer2(rec) ==
  IF rec.ci < Len(rec.allCustomers)
    THEN Call([rec EXCEPT !.ci = rec.ci + 1, !.si = 0],
              "sessions.list", rec.allCustomers[rec.ci + 1], "sessions")
  ELSE EndChannel2(rec)

\* the least index of cand, the next one a loop reaches; 0 when none is left
FirstFrom(cand) ==
  IF cand = {} THEN 0 ELSE CHOOSE i \in cand : \A j \in cand : i <= j

\* channel 2 goes on with the sessions of customer rec.ci from index si:
\* the next session that was paid has its line items fetched
NextSession2(w, rec, si) ==
  LET list == w.sessions[rec.allCustomers[rec.ci]]
      i == FirstFrom({j \in si..Len(list) : qualifies(list[j])})
  IN IF i # 0
       THEN Call([rec EXCEPT !.si = i], "listLineItems", list[i], "items")
     ELSE NextCustomer2(rec)

\* the guest lookup goes on with the recent sessions from index si: the
\* next paid session of this email has its line items fetched
NextSession3(w, rec, si) ==
  LET i == FirstFrom({j \in si..Len(w.recent) :
                        /\ sessionEmail(w.recent[j]) = rec.email
                        /\ qualifies(w.recent[j])})
  IN IF i # 0
       THEN Call([rec EXCEPT !.si = i], "listLineItems", w.recent[i], "gitems")
     ELSE Finish(rec)

\* variant: the purchases are looked up although channel 1 granted access
AfterChannel1_NoGuard(rec) ==
  IF rec.allCustomers # <<>>
    THEN Call([rec EXCEPT !.ci = 1, !.si = 0],
              "sessions.list", rec.allCustomers[1], "sessions")
  ELSE EndChannel2(rec)

\* after the try/catch of channel 1: channel 2 is entered when no key was
\* granted
AfterChannel1(rec) ==
  IF rec.keys = <<>>
    THEN IF rec.allCustomers # <<>>
           THEN Call([rec EXCEPT !.ci = 1, !.si = 0],
                     "sessions.list", rec.allCustomers[1], "sessions")
         ELSE EndChannel2(rec)
  ELSE Finish(rec)

\* some item of some active subscription is the circle product
hasCircle(subs) ==
  \E i \in DOMAIN subs : \E j \in DOMAIN subs[i] : subs[i][j] = CIRCLE_PRODUCT_ID

\* variant: the key set outlives the request (declared outside the handler)
freshLocals_KeepsKeys(old, email) ==
  [IdleVerifier EXCEPT !.email = email, !.keys = old.keys]

\* the locals of a new invocation of the handler; old are the locals of the
\* invocation that used the slot before: nothing of them is kept
freshLocals(old, email) == [IdleVerifier EXCEPT !.email = email]

\* variant: the answer of the limiter is not looked at
afterRateLimit_Ignored(rec, allowed) ==
  Call(rec, "customers.list", "email", "customers")

\* if (!checkArchiveRateLimit(email)) return res.status(429)...; otherwise
\* the try block starts with customers.list
afterRateLimit(rec, allowed) ==
  IF allowed THEN Call(rec, "customers.list", "email", "customers")
  ELSE Respond(rec, 429, "ratelimit", <<>>)

\* POST /archive/verify arrives: validation, rate limit, and the first
\* provider call (customers.list) of the resolution
VerifyArrive(v, raw) ==
  /\ vh[v].pc \in {"idle", "done"}
  /\ LET email == toLowerCase(trim(raw))
         rec == freshLocals(vh[v], email)
     IN IF email = NoEmail \/ ~isValidEmail(email)
          THEN /\ vh' = [vh EXCEPT ![v] = Respond(rec, 200, "invalid", <<>>)]
               /\ UNCHANGED <<archiveRateLimit, lastCall, allowedLog>>
        ELSE LET r == checkArchiveRateLimit(archiveRateLimit, email, now)
             IN /\ archiveRateLimit' = r.map
                /\ lastCall' = [raw |-> email, key |-> keyOf(email),
                                allowed |-> r.allowed]
                /\ allowedLog' =
                     IF r.allowed
                       THEN [allowedLog EXCEPT ![keyOf(email)] = Append(@, now)]
                     ELSE allowedLog
                /\ vh' = [vh EXCEPT ![v] = afterRateLimit(rec, r.allowed)]
  /\ UNCHANGED <<now, world>>
  /\ UNCHANGED webhookVars
  /\ UNCHANGED catalogVars
  /\ UNCHANGED variantVars

\* variant: the customers after the failing one are still asked
SubscriptionsFailed_Isolated(rec) ==
  IF rec.ci < Len(rec.allCustomers)
    THEN Call([Rejected(rec) EXCEPT !.ci = rec.ci + 1], "subscriptions.list",
              rec.allCustomers[rec.ci + 1], "subs")
  ELSE AfterChannel1(Rejected(rec))

\* catch (subErr) of channel 1 after subscriptions.list rejected: the loop
\* over the customers is left
SubscriptionsFailed(rec) == AfterChannel1(Rejected(rec))

\* variant: a rejected customer list ends the resolution with status 500
CustomersFailed_Escalates(rec) == Fail500(Rejected(rec))

\* catch (subErr) of channel 1 after customers.list rejected: allCustomers
\* is still [] and the handler goes on after the try/catch
CustomersFailed(rec) == AfterChannel1(Rejected(rec))

\* stripe.customers.list settles: channel 1 goes on with the subscriptions
\* of the first customer; a rejection is caught and allCustomers stays []
CustomersReturn(v, ok) ==
  /\ vh[v].pc = "customers"
  /\ LET rec == vh[v]
         list == world.customers[rec.email]
     IN vh' = [vh EXCEPT ![v] =
                 IF ~ok THEN CustomersFailed(rec)
                 ELSE IF list = <<>> THEN AfterChannel1(rec)
                 ELSE Call([rec EXCEPT !.allCustomers = list, !.ci = 1],
                           "subscriptions.list", list[1], "subs")]
  /\ UNCHANGED <<archiveRateLimit, now, lastCall, allowedLog, world>>
  /\ UNCHANGED webhookVars
  /\ UNCHANGED catalogVars
  /\ UNCHANGED variantVars

\* stripe.subscriptions.list of customer ci settles
SubscriptionsReturn(v, ok) ==
  /\ vh[v].pc = "subs"
  /\ LET rec == vh[v]
         subs == world.subscriptions[rec.allCustomers[rec.ci]]
     IN vh' = [vh EXCEPT ![v] =
                 IF ~ok THEN SubscriptionsFailed(rec)
                 ELSE IF hasCircle(subs)
                   THEN AfterChannel1([rec EXCEPT !.keys = addKeys(@, CanonicalKeys)])
                 ELSE IF rec.ci < Len(rec.allCustomers)
                   THEN Call([rec EXCEPT !.ci = rec.ci + 1], "subscriptions.list",
                             rec.allCustomers[rec.ci + 1], "subs")
                 ELSE AfterChannel1(rec)]
  /\ UNCHANGED <<archiveRateLimit, now, lastCall, allowedLog, world>>
  /\ UNCHANGED webhookVars
  /\ UNCHANGED catalogVars
  /\ UNCHANGED variantVars

\* stripe.checkout.sessions.list of customer ci settles; a rejection
\* reaches the catch of the handler
SessionsReturn(v, ok) ==
  /\ vh[v].pc = "sessions"
  /\ LET rec == vh[v]
     IN vh' = [vh EXCEPT ![v] =
                 IF ~ok THEN Fail500(Rejected(rec))
                 ELSE NextSession2(world, rec, 1)]
  /\ UNCHANGED <<archiveRateLimit, now, lastCall, allowedLog, world>>
  /\ UNCHANGED webhookVars
  /\ UNCHANGED catalogVars
  /\ UNCHANGED variantVars

\* listLineItems of session si of customer ci settles; a rejection is
\* caught and the loop goes on
SessionItemsReturn(v, ok) ==
  /\ vh[v].pc = "items"
  /\ LET rec == vh[v]
         sid == world.sessions[rec.allCustomers[rec.ci]][rec.si]
     IN vh' = [vh EXCEPT ![v] =
                 IF ~ok THEN NextSession2(world, Rejected(rec), rec.si + 1)
                 ELSE NextSession2(world,
                        [rec EXCEPT !.keys =
                           addLineItems(@, CheckoutSessions[sid].lineItems)],
                        rec.si + 1)]
  /\ UNCHANGED <<archiveRateLimit, now, lastCall, allowedLog, world>>
  /\ UNCHANGED webhookVars
  /\ UNCHANGED catalogVars
  /\ UNCHANGED variantVars

\* stripe.checkout.sessions.list of the recent sessions settles; a
\* rejection reaches the catch of the handler
RecentReturn(v, ok) ==
  /\ vh[v].pc = "recent"
  /\ LET rec == vh[v]
     IN vh' = [vh EXCEPT ![v] =
                 IF ~ok THEN Fail500(Rejected(rec))
                 ELSE NextSession3(world, rec, 1)]
  /\ UNCHANGED <<archiveRateLimit, now, lastCall, allowedLog, world>>
  /\ UNCHANGED webhookVars
  /\ UNCHANGED catalogVars
  /\ UNCHANGED variantVars

\* listLineItems of recent session si settles; a rejection is caught and
\* the loop goes on
GuestItemsReturn(v, ok) ==
  /\ vh[v].pc = "gitems"
  /\ LET rec == vh[v]
         sid == world.recent[rec.si]
     IN vh' = [vh EXCEPT ![v] =
                 IF ~ok THEN NextSession3(world, Rejected(rec), rec.si + 1)
                 ELSE NextSession3(world,
                        [rec EXCEPT !.keys =
                           addLineItems(@, CheckoutSessions[sid].lineItems)],
                        rec.si + 1)]
  /\ UNCHANGED <<archiveRateLimit, now, lastCall, allowedLog, world>>
  /\ UNCHANGED webhookVars
  /\ UNCHANGED catalogVars
  /\ UNCHANGED variantVars

\* ------------------------------------- the variant with identity tokens
\* (part_000: /archive/verify behind a Firebase identity token, and
\* /archive/debug; the resolution after the rate limit is that of
\* server/index.js, and the limiter differs only in its ceiling)

\* The identity tokens a request can carry: whether verifyIdToken accepts
\* the token, and the email claim of the decoded token.
IdTokens ==
  [ tok_a       |-> [valid |-> TRUE,  email |-> <<"A", "@", "x", ".", "y">>],
    tok_noemail |-> [valid |-> TRUE,  email |-> NoEmail],
    tok_forged  |-> [valid |-> FALSE, email |-> EmailA] ]

\* req.body of the requests: firebaseToken (NoValue: none) and email
VerifyBodies ==
  { [firebaseToken |-> "tok_a",       email |-> NoEmail],
    [firebaseToken |-> "tok_noemail", email |-> EmailA],
    [firebaseToken |-> "tok_forged",  email |-> EmailA],
    [firebaseToken |-> NoValue,       email |-> EmailB],
    [firebaseToken |-> NoValue,       email |-> NoEmail] }

NoBody == [firebaseToken |-> NoValue, email |-> NoEmail]

\* validation, rate limit and the first provider call for the email that
\* was determined
Admit(v, email) ==
  LET rec == freshLocals(vh[v], email)
  IN IF email = NoEmail \/ ~isValidEmail(email)
       THEN /\ vh' = [vh EXCEPT ![v] = Respond(rec, 200, "invalid", <<>>)]
            /\ UNCHANGED <<archiveRateLimit, lastCall, allowedLog>>
     ELSE LET r == checkArchiveRateLimit(archiveRateLimit, email, now)
          IN /\ archiveRateLimit' = r.map
             /\ lastCall' = [raw |-> email, key |-> keyOf(email),
                             allowed |-> r.allowed]
             /\ allowedLog' =
                  IF r.allowed
                    THEN [allowedLog EXCEPT ![keyOf(email)] = Append(@, now)]
                  ELSE allowedLog
             /\ vh' = [vh EXCEPT ![v] = afterRateLimit(rec, r.allowed)]

\* if (firebaseToken && FIREBASE_CONFIG)
useToken(b, configured) == b.firebaseToken # NoValue /\ configured

\* POST /archive/verify of the variant arrives: the token is handed to
\* verifyIdToken, or the email of the body is taken
TokenVerifyArrive(v, b) ==
  /\ vh[v].pc \in {"idle", "done"}
  /\ body' = [body EXCEPT ![v] = b]
  /\ IF useToken(b, FIREBASE_CONFIG)
       THEN /\ vh' = [vh EXCEPT ![v] =
                        [freshLocals(vh[v], NoEmail) EXCEPT !.pc = "token"]]
            /\ UNCHANGED <<archiveRateLimit, lastCall, allowedLog>>
     ELSE Admit(v, toLowerCase(trim(b.email)))
  /\ UNCHANGED <<now, world, FIREBASE_CONFIG, dbg>>
  /\ UNCHANGED webhookVars
  /\ UNCHANGED catalogVars

\* variant: after a failed verification the email of the body is looked up
TokenFailed_GoesOn(rec, b) ==
  Call([rec EXCEPT !.email = b.email], "customers.list", "email", "customers")

\* catch (tokenErr): the authentication error page
TokenFailed(rec, b) == Respond(rec, 200, "authfailed", <<>>)

\* admin.auth().verifyIdToken settles: it resolves only for a token it
\* accepts, and the email is (decoded.email || '').toLowerCase()
TokenReturn(v, ok) ==
  /\ vh[v].pc = "token"
  /\ ok => IdTokens[body[v].firebaseToken].valid
  /\ IF ok
       THEN Admit(v, toLowerCase(IdTokens[body[v].firebaseToken].email))
     ELSE /\ vh' = [vh EXCEPT ![v] = TokenFailed(vh[v], body[v])]
          /\ UNCHANGED <<archiveRateLimit, lastCall, allowedLog>>
  /\ UNCHANGED <<now, world, FIREBASE_CONFIG, body, dbg>>
  /\ UNCHANGED webhookVars
  /\ UNCHANGED catalogVars

\* ---- GET /archive/debug
\* req.query.email of the requests
DebugInputs == {<<" ", "A", "@", "X", ".", "y", " ">>, NoEmail}

IdleDebug ==
  [pc |-> "idle", email |-> NoEmail, customers |-> <<>>, ci |-> 0, si |-> 0,
   calls |-> <<>>, failed |-> {}, resp |-> NoValue]

\* res.json(...): the handler ends
DebugRespond(rec, json) == [rec EXCEPT !.pc = "done", !.resp = json]

\* the loop over customers.data goes on with the customer after rec.ci, and
\* after the last one the recent sessions are listed
DebugNextCustomer(rec) ==
  IF rec.ci < Len(rec.customers)
    THEN Call([rec EXCEPT !.ci = rec.ci + 1, !.si = 0],
              "sessions.list", rec.customers[rec.ci + 1], "sessions")
  ELSE Call(rec, "sessions.list", "recent", "recent")

\* the loop over sessions.data of customer rec.ci goes on with session si:
\* the line items of every session are fetched
DebugNextSession(w, rec, si) ==
  IF si <= Len(w.sessions[rec.customers[rec.ci]])
    THEN Call([rec EXCEPT !.si = si], "listLineItems",
              w.sessions[rec.customers[rec.ci]][si], "items")
  ELSE DebugNextCustomer(rec)

\* GET /archive/debug arrives: the customers of the email are listed
DebugArrive(raw) ==
  /\ dbg.pc \in {"idle", "done"}
  /\ LET email == toLowerCase(trim(raw))
         rec == [IdleDebug EXCEPT !.email = email]
     IN dbg' = IF email = NoEmail THEN DebugRespond(rec, "email required")
               ELSE Call(rec, "customers.list", "email", "customers")
  /\ UNCHANGED <<FIREBASE_CONFIG, body>>
  /\ UNCHANGED <<webhookVars, rateVars, verifyVars, catalogVars>>

\* stripe.customers.list settles: the subscriptions of the first customer
\* are listed when there is one
DebugCustomersReturn(ok) ==
  /\ dbg.pc = "customers"
  /\ LET list == world.customers[dbg.email]
     IN dbg' = IF ~ok THEN DebugRespond(Rejected(dbg), "error")
               ELSE IF list # <<>>
                 THEN Call([dbg EXCEPT !.customers = list],
                           "subscriptions.list", list[1], "subs")
               ELSE DebugNextCustomer(dbg)
  /\ UNCHANGED <<FIREBASE_CONFIG, body>>
  /\ UNCHANGED <<webhookVars, rateVars, verifyVars, catalogVars>>

\* stripe.subscriptions.list settles
DebugSubscriptionsReturn(ok) ==
  /\ dbg.pc = "subs"
  /\ dbg' = IF ~ok THEN DebugRespond(Rejected(dbg), "error")
            ELSE DebugNextCustomer(dbg)
  /\ UNCHANGED <<FIREBASE_CONFIG, body>>
  /\ UNCHANGED <<webhookVars, rateVars, verifyVars, catalogVars>>

\* stripe.checkout.sessions.list of customer ci settles
DebugSessionsReturn(ok) ==
  /\ dbg.pc = "sessions"
  /\ dbg' = IF ~ok THEN DebugRespond(Rejected(dbg), "error")
            ELSE DebugNextSession(world, dbg, 1)
  /\ UNCHANGED <<FIREBASE_CONFIG, body>>
  /\ UNCHANGED <<webhookVars, rateVars, verifyVars, catalogVars>>

\* listLineItems of session si settles; a rejection is noted in the entry
DebugItemsReturn(ok) ==
  /\ dbg.pc = "items"
  /\ dbg' = DebugNextSession(world, IF ok THEN dbg ELSE Rejected(dbg), dbg.si + 1)
  /\ UNCHANGED <<FIREBASE_CONFIG, body>>
  /\ UNCHANGED <<webhookVars, rateVars, verifyVars, catalogVars>>

\* the list of the recent sessions settles: res.json(debug)
DebugRecentReturn(ok) ==
  /\ dbg.pc = "recent"
  /\ dbg' = IF ~ok THEN DebugRespond(Rejected(dbg), "error")
            ELSE DebugRespond(dbg, "debug")
  /\ UNCHANGED <<FIREBASE_CONFIG, body>>
  /\ UNCHANGED <<webhookVars, rateVars, verifyVars, catalogVars>>

\* ------------------------------------------------------- specifications
\* the state of a fresh process, whatever the provider holds and whatever
\* the environment configures
InitState ==
  /\ processedFile = {}
  /\ failedFile = <<>>
  /\ pc = [h \in Handlers |-> "idle"]
  /\ req = [h \in Handlers |-> [sig |-> "none", id |-> "evt_two"]]
  /\ resp = [h \in Handlers |-> NoResp]
  /\ mail = [h \in Handlers |-> NoMail]
  /\ attempt = [h \in Handlers |-> 0]
  /\ lastErr = [h \in Handlers |-> NoValue]
  /\ sendResult = [h \in Handlers |-> NoValue]
  /\ trace = [h \in Handlers |-> <<>>]
  /\ waits = [h \in Handlers |-> <<>>]
  /\ processedEvents = [h \in Handlers |-> {}]
  /\ archiveRateLimit = <<>>
  /\ now = 0
  /\ lastCall = NoCall
  /\ allowedLog = [k \in Keys |-> <<>>]
  /\ vh = [v \in Verifiers |-> IdleVerifier]
  /\ notice = NoMail
  /\ body = [v \in Verifiers |-> NoBody]
  /\ dbg = IdleDebug

\* server/index.js does not set up Firebase
InitProcess == InitState /\ FIREBASE_CONFIG = FALSE

Init == InitProcess /\ world = WorldEmpty /\ session = NoCheckout

\* concurrent webhook deliveries, with process crashes
Next ==
  \/ \E h \in Handlers, r \in Requests : Receive(h, r)
  \/ \E h \in Handlers : LineItemsFail(h)
  \/ \E h \in Handlers : LineItemsReturn(h)
  \/ \E h \in Handlers, o \in Outcomes : FetchReturn(h, o)
  \/ \E h \in Handlers : BackoffElapsed(h)
  \/ Crash

Spec == Init /\ [][Next]_vars

\* the webhook pipeline in a process that stays up, where every awaited call
\* settles (resolves or rejects) and every timer fires
NextLive ==
  \/ \E h \in Handlers, r \in Requests : Receive(h, r)
  \/ \E h \in Handlers : LineItemsFail(h)
  \/ \E h \in Handlers : LineItemsReturn(h)
  \/ \E h \in Handlers, o \in Outcomes : FetchReturn(h, o)
  \/ \E h \in Handlers : BackoffElapsed(h)

Settles(h) ==
  \/ LineItemsFail(h)
  \/ LineItemsReturn(h)
  \/ \E o \in Outcomes : FetchReturn(h, o)
  \/ BackoffElapsed(h)

SpecLive ==
  /\ Init
  /\ [][NextLive]_vars
  /\ \A h \in Handlers : WF_vars(Settles(h))

\* calls of the rate limiter in one process lifetime
NextRate ==
  \/ \E e \in RawEmails : CheckRate(e)
  \/ Tick

SpecRate == Init /\ [][NextRate]_vars

\* the purchase action on every checkout session of up to MaxItems items
InitCatalog == InitProcess /\ world = WorldEmpty /\ session \in CheckoutInputs

NextCatalog == BuildNotification

SpecCatalog == InitCatalog /\ [][NextCatalog]_vars

\* resolutions of one /archive/verify handler at a time, for every content
\* of the provider
InitResolve == InitProcess /\ world \in Worlds /\ session = NoCheckout

NextResolve ==
  \/ \E raw \in VerifyInputs : VerifyArrive(1, raw)
  \/ \E ok \in BOOLEAN : CustomersReturn(1, ok)
  \/ \E ok \in BOOLEAN : SubscriptionsReturn(1, ok)
  \/ \E ok \in BOOLEAN : SessionsReturn(1, ok)
  \/ \E ok \in BOOLEAN : SessionItemsReturn(1, ok)
  \/ \E ok \in BOOLEAN : RecentReturn(1, ok)
  \/ \E ok \in BOOLEAN : GuestItemsReturn(1, ok)

SpecResolve == InitResolve /\ [][NextResolve]_vars

\* The records of the provider change (a subscription lapses, a purchase is
\* made) between two resolutions.
ProviderChanges ==
  /\ \A v \in Verifiers : vh[v].pc \in {"idle", "done"}
  /\ world' \in Worlds \ {world}
  /\ UNCHANGED <<archiveRateLimit, now, lastCall, allowedLog, vh>>
  /\ UNCHANGED webhookVars
  /\ UNCHANGED catalogVars
  /\ UNCHANGED variantVars

\* resolutions of two handlers, one after the other, for one address, while
\* the provider's records change between them
FreshInputs == {EmailA}

NextFresh ==
  \/ \E v \in {1, 2} :
       /\ \A u \in Verifiers : vh[u].pc \in {"idle", "done"}
       /\ \E raw \in FreshInputs : VerifyArrive(v, raw)
  \/ \E v \in {1, 2}, ok \in BOOLEAN : CustomersReturn(v, ok)
  \/ \E v \in {1, 2}, ok \in BOOLEAN : SubscriptionsReturn(v, ok)
  \/ \E v \in {1, 2}, ok \in BOOLEAN : SessionsReturn(v, ok)
  \/ \E v \in {1, 2}, ok \in BOOLEAN : SessionItemsReturn(v, ok)
  \/ \E v \in {1, 2}, ok \in BOOLEAN : RecentReturn(v, ok)
  \/ \E v \in {1, 2}, ok \in BOOLEAN : GuestItemsReturn(v, ok)
  \/ ProviderChanges

SpecFresh == InitResolve /\ [][NextFresh]_vars

\* the variant: one /archive/verify handler and the /archive/debug handler,
\* with and without Firebase configured
VariantWorlds == {WorldShadow, WorldPurchases}

InitVariant ==
  /\ InitState
  /\ FIREBASE_CONFIG \in BOOLEAN
  /\ world \in VariantWorlds
  /\ session = NoCheckout

NextVariant ==
  \/ \E b \in VerifyBodies : TokenVerifyArrive(1, b)
  \/ \E ok \in BOOLEAN : TokenReturn(1, ok)
  \/ \E ok \in BOOLEAN : CustomersReturn(1, ok)
  \/ \E ok \in BOOLEAN : SubscriptionsReturn(1, ok)
  \/ \E ok \in BOOLEAN : SessionsReturn(1, ok)
  \/ \E ok \in BOOLEAN : SessionItemsReturn(1, ok)
  \/ \E ok \in BOOLEAN : RecentReturn(1, ok)
  \/ \E ok \in BOOLEAN : GuestItemsReturn(1, ok)
  \/ \E raw \in DebugInputs : DebugArrive(raw)
  \/ \E ok \in BOOLEAN : DebugCustomersReturn(ok)
  \/ \E ok \in BOOLEAN : DebugSubscriptionsReturn(ok)
  \/ \E ok \in BOOLEAN : DebugSessionsReturn(ok)
  \/ \E ok \in BOOLEAN : DebugItemsReturn(ok)
  \/ \E ok \in BOOLEAN : DebugRecentReturn(ok)

SpecVariant == InitVariant /\ [][NextVariant]_vars

\* concurrent /archive/verify requests of one identity while time passes
ConcInputs == {<<" ", "A", "@", "X", ".", "y", " ">>}

NextConc ==
  \/ \E v \in Verifiers, raw \in ConcInputs : VerifyArrive(v, raw)
  \/ \E v \in Verifiers, ok \in BOOLEAN : CustomersReturn(v, ok)
  \/ \E v \in Verifiers, ok \in BOOLEAN : RecentReturn(v, ok)
  \/ Tick

SpecConc == Init /\ [][NextConc]_vars

\* ------------------------------------------------------------- properties
Has(seq, x) == \E i \in DOMAIN seq : seq[i] = x
Arrives(h) == pc[h] = "idle" /\ pc'[h] # "idle"
Recorded(h) == Has(trace[h], "saveProcessedEvent")
AlreadyProcessedResp == [status |-> 200, body |-> "already_processed"]
ReceivedResp == [status |-> 200, body |-> "received"]

\* C1: once a delivery of event E has completed and recorded E, E is in the
\* store, and every delivery of E that arrives afterwards is answered 200
\* (already processed) at once, makes no transport call, writes no
\* failed-notification record and leaves the store unchanged; a finished
\* handler does nothing more.
C1_Redelivery ==
  /\ [](\A h \in Handlers :
          (pc[h] = "done" /\ resp[h] = ReceivedResp) => req[h].id \in processedFile)
  /\ [][\A h \in Handlers :
          /\ (Arrives(h) /\ req'[h].sig = "good" /\ req'[h].id \in processedFile)
               => /\ pc'[h] = "done"
                  /\ resp'[h] = AlreadyProcessedResp
                  /\ ~Has(trace'[h], "listLineItems")
                  /\ ~Has(trace'[h], "fetch")
                  /\ ~Has(trace'[h], "recordFailedEmail")
                  /\ ~Has(trace'[h], "saveProcessedEvent")
                  /\ failedFile' = failedFile
                  /\ processedFile' = processedFile
          /\ pc[h] = "done"
               => /\ pc'[h] = "done"
                  /\ trace'[h] = trace[h]
                  /\ resp'[h] = resp[h]]_vars

C1_Witness ==
  \E g, h \in Handlers :
    /\ g < h /\ req[g].id = req[h].id
    /\ resp[g] = ReceivedResp /\ Has(trace[g], "fetch")
    /\ pc[h] = "done" /\ resp[h] = AlreadyProcessedResp

\* C2: two deliveries of the same event are never both past the idempotency
\* check at the same time, and at most one notification is sent for an event.
C2_NoConcurrentDuplicate ==
  \A g, h \in Handlers :
    (g # h /\ req[g].id = req[h].id)
      => /\ ~(InFlight(g) /\ InFlight(h))
         /\ ~(sendResult[g] = "sent" /\ sendResult[h] = "sent")

\* C3: a handler writes its event id to the store at most once, as its last
\* call and together with its 200 response: after its send attempts ended in
\* success or after the failure was recorded; while a handler is suspended
\* its event id is in the store only if another delivery recorded it.
C3_CommitOrdering ==
  \A h \in Handlers :
    /\ Count(trace[h], "saveProcessedEvent") <= 1
    /\ Recorded(h)
         => /\ trace[h][Len(trace[h])] = "saveProcessedEvent"
            /\ pc[h] = "done"
            /\ resp[h] = ReceivedResp
            /\ Has(trace[h], "fetch")
                 => \/ sendResult[h] = "sent"
                    \/ /\ sendResult[h] = "threw"
                       /\ trace[h][Len(trace[h]) - 1] = "recordFailedEmail"
    /\ (InFlight(h) \/ pc[h] = "cut")
         => /\ ~Recorded(h)
            /\ req[h].id \in processedFile
                 => \E g \in Handlers : g # h /\ req[g].id = req[h].id /\ Recorded(g)

C3_Witness ==
  \E h \in Handlers :
    /\ sendResult[h] = "threw"
    /\ Count(trace[h], "fetch") = 3
    /\ Recorded(h)

\* C4: a request whose signature is invalid or missing is answered 400 and
\* the signature check is the only call it makes: the store is not loaded,
\* the catalog is not consulted, no provider call, no transport call, no
\* failed-notification record and no change of the store.
C4_SignatureRejection ==
  /\ [](\A h \in Handlers :
          (pc[h] # "idle" /\ req[h].sig # "good")
            => /\ pc[h] = "done"
               /\ resp[h].status = 400
               /\ trace[h] = <<"constructEvent">>
               /\ mail[h] = NoMail)
  /\ [][\A h \in Handlers :
          (Arrives(h) /\ req'[h].sig # "good")
            => /\ processedFile' = processedFile
               /\ failedFile' = failedFile]_vars

C4_Witness ==
  \E g, h \in Handlers :
    /\ req[g].sig = "bad" /\ resp[g].status = 400
    /\ req[h].sig = "none" /\ resp[h].status = 400
    /\ req[h].id \notin processedFile

\* C5: when sendEmailWithRetry raised after its last attempt, the handler
\* has written a failed-notification record for the recipient, has recorded
\* the event and has answered 200.
C5_FailureNonFatal ==
  \A h \in Handlers :
    sendResult[h] = "threw"
      => /\ pc[h] = "done"
         /\ resp[h] = ReceivedResp
         /\ req[h].id \in processedFile
         /\ Has(trace[h], "recordFailedEmail")
         /\ \E i \in DOMAIN failedFile :
              /\ failedFile[i].email = mail[h].to
              /\ failedFile[i].product_name = mail[h].productName

C5_Witness ==
  \E h \in Handlers :
    /\ sendResult[h] = "threw"
    /\ resp[h].status = 200
    /\ Len(failedFile) = 1

\* a handling that ended without commit: answered 500, or cut off
Failed(h) == pc[h] = "cut" \/ (pc[h] = "done" /\ resp[h].status = 500)

\* C6: a handling of E that ends with status 500 or is cut off has not
\* written E to the store, so E is absent unless another delivery of E
\* recorded it; and a delivery of a purchase-completed event that is absent
\* from the store runs the action (it fetches the line items).
C6_FailureLeadsToRetry ==
  /\ [](\A h \in Handlers :
          Failed(h)
            => /\ ~Recorded(h)
               /\ req[h].id \in processedFile
                    => \E g \in Handlers :
                         g # h /\ req[g].id = req[h].id /\ resp[g] = ReceivedResp)
  /\ [][\A h \in Handlers :
          /\ (InFlight(h) /\ ~InFlight(h)' /\ Failed(h)')
               => processedFile' = processedFile
          /\ (Arrives(h) /\ req'[h].sig = "good"
                /\ Events[req'[h].id].type = CHECKOUT_COMPLETED
                /\ req'[h].id \notin processedFile)
               => /\ pc'[h] = "lineItems"
                  /\ Has(trace'[h], "listLineItems")]_vars

C6_Witness ==
  \E g, h \in Handlers :
    /\ g < h
    /\ req[g].id = req[h].id
    /\ pc[g] = "done" /\ resp[g].status = 500
    /\ Has(trace[h], "listLineItems")
    /\ req[h].id \notin processedFile

\* C7: when sendEmailWithRetry returned success on its k-th attempt it made
\* exactly k transport calls (k - 1 failures, each followed by a wait),
\* k <= 3, no failed-notification record was written for it and the request
\* succeeded; the send is never given up before the third attempt.
C7_RetryThenSuccess ==
  \A h \in Handlers :
    /\ sendResult[h] = "sent"
         => /\ Count(trace[h], "fetch") = attempt[h] + 1
            /\ Count(trace[h], "wait") = attempt[h]
            /\ attempt[h] + 1 <= 3
            /\ ~Has(trace[h], "recordFailedEmail")
            /\ resp[h] = ReceivedResp
    /\ (sendResult[h] # NoValue /\ Count(trace[h], "fetch") < 3)
         => sendResult[h] = "sent"
    /\ Len(failedFile) <= Cardinality({g \in Handlers : sendResult[g] = "threw"})

C7_Witness ==
  \E h \in Handlers :
    /\ sendResult[h] = "sent"
    /\ Count(trace[h], "fetch") = 3
    /\ lastErr[h] # NoValue
    /\ failedFile = <<>>

\* C8: when all 3 attempts failed, sendEmailWithRetry raises the error of
\* the last attempt and exactly one failed-notification record is written
\* for it, holding that error and the recipient; the file holds one record
\* per exhausted notification and none for any other.
C8_ExhaustedRetry ==
  /\ \A h \in Handlers :
       sendResult[h] = "threw"
         => /\ Count(trace[h], "fetch") = 3
            /\ attempt[h] = 2
            /\ Count(trace[h], "recordFailedEmail") = 1
            /\ \E i \in DOMAIN failedFile :
                 failedFile[i] = [email |-> mail[h].to,
                                  product_name |-> mail[h].productName,
                                  error |-> lastErr[h]]
  /\ \A h \in Handlers :
       Has(trace[h], "recordFailedEmail") => sendResult[h] = "threw"
  /\ Len(failedFile) = Cardinality({h \in Handlers : sendResult[h] = "threw"})

C8_Witness ==
  \E g, h \in Handlers :
    /\ g # h
    /\ sendResult[g] = "threw" /\ sendResult[h] = "threw"
    /\ lastErr[g] # lastErr[h]
    /\ Len(failedFile) = 2

\* the entries of a timestamp sequence that lie within the window at time t
InWindow(seq, t) == Cardinality({i \in DOMAIN seq : t - seq[i] < windowMs})
\* a step that is a call of the limiter
IsCall == now' = now /\ lastCall' # NoCall

\* C9: a call for an identity that already has maxRequests allowed calls
\* within the window is denied: it returns false and is not counted.
C9_Ceiling ==
  [][IsCall =>
       LET k == lastCall'.key
       IN /\ InWindow(allowedLog[k], now) >= maxRequests
               => /\ lastCall'.allowed = FALSE
                  /\ allowedLog' = allowedLog
          /\ lastCall'.allowed = FALSE
               => InWindow(allowedLog[k], now) >= maxRequests]_vars

C9_Witness ==
  /\ lastCall.allowed = FALSE
  /\ lastCall.key \in Keys
  /\ InWindow(allowedLog[lastCall.key], now) = maxRequests
  /\ Len(allowedLog[lastCall.key]) = maxRequests

\* the stored timestamps of key k (none when the key is not in the Map)
Stored(m, k) == IF k \in DOMAIN m THEN m[k] ELSE <<>>

\* C10: a denied call stores no timestamp: the identity's window afterwards
\* is the window before, pruned of expired timestamps; an allowed call
\* appends the current time to the pruned window.
C10_DeniedConsumesNoSlot ==
  [][IsCall =>
       LET k == lastCall'.key
           pruned == SelectSeq(Stored(archiveRateLimit, k),
                               LAMBDA x : now - x < windowMs)
       IN /\ lastCall'.allowed = FALSE => archiveRateLimit'[k] = pruned
          /\ lastCall'.allowed = TRUE => archiveRateLimit'[k] = Append(pruned, now)
          /\ \A j \in DOMAIN archiveRateLimit :
               j # k => archiveRateLimit'[j] = archiveRateLimit[j]]_vars

C10_Witness ==
  /\ lastCall.allowed = FALSE
  /\ lastCall.key \in DOMAIN archiveRateLimit
  /\ Len(archiveRateLimit[lastCall.key]) = maxRequests
  /\ Len(allowedLog[lastCall.key]) > maxRequests
  /\ archiveRateLimit[lastCall.key][1] = now


\* C11: when a call is made for an identity whose earliest stored timestamp
\* is at least one window old, the call is allowed and every timestamp that
\* old is discarded from the stored window; a denied call leaves the
\* earliest stored timestamp as it was, so denials in between do not move
\* the moment of expiry.
C11_WindowExpiry ==
  [][IsCall =>
       LET k == lastCall'.key
           old == Stored(archiveRateLimit, k)
       IN /\ (old # <<>> /\ now - old[1] >= windowMs)
               => /\ lastCall'.allowed = TRUE
                  /\ \A i \in DOMAIN archiveRateLimit'[k] :
                       now - archiveRateLimit'[k][i] < windowMs
                  /\ Len(archiveRateLimit'[k]) <= Len(old)
          /\ lastCall'.allowed = FALSE
               => /\ old # <<>>
                  /\ archiveRateLimit'[k][1] = old[1]
                  /\ now - old[1] < windowMs]_vars

\* an identity that was at the ceiling at time 0 is allowed again exactly
\* one window later
C11_Witness ==
  /\ lastCall.allowed = TRUE
  /\ lastCall.key \in Keys
  /\ now = windowMs
  /\ Len(allowedLog[lastCall.key]) = maxRequests + 1
  /\ \A i \in 1..maxRequests : allowedLog[lastCall.key][i] = 0
  /\ allowedLog[lastCall.key][maxRequests + 1] = now
  /\ archiveRateLimit[lastCall.key] = <<now>>


\* a /archive/verify handler suspended in a provider call
Suspended(v) == vh[v].pc \notin {"idle", "done"}

\* C12: under every interleaving of /archive/verify handlers, the calls of
\* one identity that the limiter allowed with timestamps inside one window
\* (from any allowed call up to one window length later) are never more
\* than maxRequests, and every suspended handler is one of the allowed calls.
C12_NoConcurrentBypass ==
  \A k \in Keys :
    /\ \A i \in DOMAIN allowedLog[k] :
         Cardinality({j \in DOMAIN allowedLog[k] :
                        /\ allowedLog[k][i] <= allowedLog[k][j]
                        /\ allowedLog[k][j] - allowedLog[k][i] < windowMs})
           <= maxRequests
    /\ Cardinality({v \in Verifiers : Suspended(v) /\ keyOf(vh[v].email) = k})
         <= Len(allowedLog[k])

\* a request of an identity is denied while another request of the same
\* identity, allowed at the same instant, is still suspended
C12_Witness ==
  \E v, u \in Verifiers :
    /\ v # u
    /\ Suspended(v)
    /\ vh[u].pc = "done" /\ vh[u].resp.status = 429
    /\ vh[u].email = vh[v].email
    /\ Len(allowedLog[vh[v].email]) = maxRequests
    /\ allowedLog[vh[v].email][maxRequests] = now


\* ---- what the provider holds, read off the world
\* customer c has an active subscription with an item of the circle product
CircleMember(c) ==
  \E i \in DOMAIN world.subscriptions[c] :
    \E j \in DOMAIN world.subscriptions[c][i] :
      world.subscriptions[c][i][j] = CIRCLE_PRODUCT_ID

\* ---- what a handler did
Issued(v, kind) == \E i \in DOMAIN vh[v].calls : vh[v].calls[i][1] = kind
\* the i-th call of handler v has settled without error
Succeeded(v, i) ==
  /\ i \in DOMAIN vh[v].calls
  /\ vh[v].calls[i] \notin vh[v].failed
  /\ i < Len(vh[v].calls) \/ vh[v].pc = "done"
\* channel 1 of handler v found the membership: a subscriptions.list call
\* of a member's customer record returned
FoundCircle(v) ==
  \E i \in DOMAIN vh[v].calls :
    /\ vh[v].calls[i][1] = "subscriptions.list"
    /\ Succeeded(v, i)
    /\ CircleMember(vh[v].calls[i][2])
VideoPage(keys) == [status |-> 200, page |-> "video", keys |-> keys]
NotFoundPage == [status |-> 200, page |-> "notfound", keys |-> <<>>]
ServerErrorPage == [status |-> 500, page |-> "servererror", keys |-> <<>>]

\* C13: when channel 1 found an active subscription with the circle product
\* for a customer record of the email, the handler issues no checkout-session
\* list and no line-item fetch, and it answers with the video page of all of
\* A, B, C, D, E1, E2, F; as long as only channel 1 has been consulted the
\* keys collected are none or all of them.
C13_SubscriptionShortCircuit ==
  \A v \in Verifiers :
    /\ FoundCircle(v)
         => /\ ~Issued(v, "sessions.list")
            /\ ~Issued(v, "listLineItems")
            /\ vh[v].pc = "done"
            /\ vh[v].resp = VideoPage(<<"A", "B", "C", "D", "E1", "E2", "F">>)
    /\ ~Issued(v, "sessions.list")
         => \/ vh[v].keys = <<>>
            \/ /\ Range(vh[v].keys) = {"A", "B", "C", "D", "E1", "E2", "F"}
               /\ FoundCircle(v)

\* the membership is found on the second customer record of the email
C13_Witness ==
  \E v \in Verifiers :
    /\ vh[v].pc = "done"
    /\ vh[v].calls = << <<"customers.list", "email">>,
                        <<"subscriptions.list", "cus_1">>,
                        <<"subscriptions.list", "cus_2">> >>
    /\ vh[v].failed = {}
    /\ CircleMember("cus_2") /\ ~CircleMember("cus_1")
    /\ vh[v].resp = VideoPage(<<"A", "B", "C", "D", "E1", "E2", "F">>)


\* handler v issued the call kind(target)
IssuedTo(v, kind, target) ==
  \E i \in DOMAIN vh[v].calls : vh[v].calls[i] = <<kind, target>>
\* the provider holds at least one customer record for the email of v
HasCustomerRecord(v) ==
  /\ vh[v].email \in DOMAIN world.customers
  /\ world.customers[vh[v].email] # <<>>

\* C14: the list of the recent checkout sessions of all buyers is asked for
\* only when the provider holds no customer record for the email and the
\* channels 1 and 2 granted no key; when a customer record exists for the
\* email it is never asked for.
C14_GuestGating ==
  \A v \in Verifiers :
    IssuedTo(v, "sessions.list", "recent")
      => /\ ~HasCustomerRecord(v)
         /\ ~FoundCircle(v)
         /\ ~Issued(v, "subscriptions.list")
         /\ ~\E c \in {"cus_1", "cus_2"} : IssuedTo(v, "sessions.list", c)


\* ---- the entitlements the provider's records amount to
Paid(sid) ==
  \/ CheckoutSessions[sid].payment_status = "paid"
  \/ CheckoutSessions[sid].payment_status = "no_payment_required"
\* the archive session keys of the line items of session sid
KeysOfSession(sid) ==
  UNION {Range(ARCHIVE_SESSION_MAP[p]) :
           p \in Range(CheckoutSessions[sid].lineItems) \cap DOMAIN ARCHIVE_SESSION_MAP}
BuyerEmail(sid) ==
  IF CheckoutSessions[sid].details_email # <<>>
    THEN CheckoutSessions[sid].details_email
  ELSE CheckoutSessions[sid].customer_email
\* s and t are the same email up to the case of the letters A, B, X, Y
SameEmail(s, t) ==
  /\ Len(s) = Len(t)
  /\ \A i \in DOMAIN s :
       \/ s[i] = t[i]
       \/ <<s[i], t[i]>> \in {<<"a", "A">>, <<"A", "a">>, <<"b", "B">>, <<"B", "b">>,
                              <<"x", "X">>, <<"X", "x">>, <<"y", "Y">>, <<"Y", "y">>}
GuestKeys(email) ==
  UNION {KeysOfSession(sid) :
           sid \in {s \in Range(world.recent) : SameEmail(BuyerEmail(s), email) /\ Paid(s)}}
CustomerKeys(email) ==
  UNION {KeysOfSession(sid) :
           sid \in {s \in UNION {Range(world.sessions[c]) :
                                   c \in Range(world.customers[email])} : Paid(s)}}
\* the page that presents the key set S
PageOf(S) ==
  IF S = {} THEN NotFoundPage
  ELSE VideoPage(SelectSeq(<<"A", "B", "C", "D", "E1", "E2", "F">>, LAMBDA k : k \in S))
\* handler v has finished and none of its calls of the given kinds failed
DoneWithout(v, kinds) ==
  /\ vh[v].pc = "done"
  /\ \A c \in vh[v].failed : c[1] \notin kinds

\* C15: a resolution for an email without customer record whose session
\* list and line-item calls all succeeded answers with the keys mapped from
\* the line items of the recent sessions that were bought under this email
\* (compared without regard to case) and are paid or need no payment, in the
\* order A, B, C, D, E1, E2, F; the not-found page when there is none.
C15_GuestFallback ==
  \A v \in Verifiers :
    /\ DoneWithout(v, {"sessions.list", "listLineItems"})
    /\ Issued(v, "customers.list")
    /\ ~HasCustomerRecord(v)
    => vh[v].resp = PageOf(GuestKeys(vh[v].email))

\* the one guest purchase of the email, stored in capitals, grants the keys
\* of its item
C15_Witness ==
  \E v \in Verifiers :
    /\ vh[v].pc = "done" /\ vh[v].failed = {}
    /\ vh[v].email = <<"a", "@", "x", ".", "y">>
    /\ ~HasCustomerRecord(v)
    /\ vh[v].calls = << <<"customers.list", "email">>,
                        <<"sessions.list", "recent">>,
                        <<"listLineItems", "cs_guest">> >>
    /\ vh[v].resp = VideoPage(<<"A", "B", "C", "F">>)

\* C16: a resolution that asked for the customers' checkout sessions
\* (channel 1 granted nothing) and whose session list and line-item calls
\* all succeeded answers with the union, over all customer records of the
\* email and all their sessions that are paid or need no payment, of the
\* keys mapped from the line items; other sessions and unmapped price ids
\* add no key.
C16_RegisteredPurchases ==
  \A v \in Verifiers :
    /\ DoneWithout(v, {"sessions.list", "listLineItems"})
    /\ \E c \in {"cus_1", "cus_2"} : IssuedTo(v, "sessions.list", c)
    => /\ HasCustomerRecord(v)
       /\ vh[v].resp = PageOf(CustomerKeys(vh[v].email))

\* purchases of two customer records are united; the unpaid full-day
\* session and the unmapped price add nothing
C16_Witness ==
  \E v \in Verifiers :
    /\ vh[v].pc = "done" /\ vh[v].failed = {}
    /\ IssuedTo(v, "listLineItems", "cs_gas")
    /\ IssuedTo(v, "listLineItems", "cs_free")
    /\ ~IssuedTo(v, "listLineItems", "cs_unpaid")
    /\ "cs_unpaid" \in Range(world.sessions["cus_1"])
    /\ vh[v].resp = VideoPage(<<"A", "B", "D", "E1", "E2", "F">>)


\* ---- channels that errored: the list call the channel rests on was rejected
FailedKind(v, kind) == \E c \in vh[v].failed : c[1] = kind
Channel1Errored(v) == FailedKind(v, "customers.list") \/ FailedKind(v, "subscriptions.list")
Channel2Consulted(v) == \E c \in {"cus_1", "cus_2"} : IssuedTo(v, "sessions.list", c)
Channel2Errored(v) == \E c \in {"cus_1", "cus_2"} : <<"sessions.list", c>> \in vh[v].failed
Channel3Consulted(v) == IssuedTo(v, "sessions.list", "recent")
Channel3Errored(v) == <<"sessions.list", "recent">> \in vh[v].failed

C18_PartialFailureIsolation ==
  \A v \in Verifiers :
    /\ vh[v].pc = "done"
    /\ vh[v].allCustomers # <<>>
    /\ \A f \in vh[v].failed : f[1] \in {"subscriptions.list", "listLineItems"}
    => IF \E c \in Range(vh[v].allCustomers) :
            CircleMember(c) /\ <<"subscriptions.list", c>> \notin vh[v].failed
         THEN vh[v].resp = VideoPage(<<"A", "B", "C", "D", "E1", "E2", "F">>)
       ELSE \A c \in Range(vh[v].allCustomers) :
              \A sid \in Range(world.sessions[c]) :
                Paid(sid) /\ <<"listLineItems", sid>> \notin vh[v].failed
                  => KeysOfSession(sid) \subseteq Range(vh[v].resp.keys)


\* the provider holds no membership and no paid purchase for the email
NoEntitlement(email) ==
  /\ \A c \in Range(world.customers[email]) : ~CircleMember(c)
  /\ CustomerKeys(email) = {}
  /\ GuestKeys(email) = {}

\* C19: a resolution all of whose provider calls succeeded never ends with an
\* error status, and when the provider holds no membership and no paid
\* purchase for the email it ends with the not-found page (status 200, no
\* key).
C19_NotFoundIsNoError ==
  \A v \in Verifiers :
    /\ vh[v].pc = "done"
    /\ Issued(v, "customers.list")
    /\ vh[v].failed = {}
    => /\ vh[v].resp.status = 200
       /\ vh[v].resp.page \in {"video", "notfound"}
       /\ NoEntitlement(vh[v].email) => vh[v].resp = NotFoundPage

\* an email without customer record among recent sessions of other buyers
C19_Witness ==
  \E v \in Verifiers :
    /\ vh[v].pc = "done" /\ vh[v].failed = {}
    /\ vh[v].calls = << <<"customers.list", "email">>, <<"sessions.list", "recent">> >>
    /\ world.recent # <<>>
    /\ NoEntitlement(vh[v].email)
    /\ vh[v].resp = NotFoundPage


\* the place of key k in the fixed ordering A, B, C, D, E1, E2, F
Place(k) ==
  CHOOSE i \in 1..7 : <<"A", "B", "C", "D", "E1", "E2", "F">>[i] = k

\* C20: the key list of every video page is not empty, consists of keys of
\* the ordering A, B, C, D, E1, E2, F in strictly increasing place (hence
\* without duplicates), and holds exactly the keys that were collected, in
\* whatever order they were discovered.
C20_CanonicalOrder ==
  \A v \in Verifiers :
    vh[v].resp.page = "video"
      => /\ vh[v].resp.keys # <<>>
         /\ Range(vh[v].resp.keys) \subseteq {"A", "B", "C", "D", "E1", "E2", "F"}
         /\ \A i, j \in DOMAIN vh[v].resp.keys :
              i < j => Place(vh[v].resp.keys[i]) < Place(vh[v].resp.keys[j])
         /\ Range(vh[v].resp.keys) = Range(vh[v].keys)

\* the keys were discovered in another order than they are presented
C20_Witness ==
  \E v \in Verifiers :
    /\ vh[v].resp.page = "video"
    /\ vh[v].keys = <<"A", "B", "E1", "E2", "F", "D">>
    /\ vh[v].resp.keys = <<"A", "B", "D", "E1", "E2", "F">>


\* handler v starts to serve a request in this step
VerifyArrives(v) == vh[v].pc \in {"idle", "done"} /\ vh'[v] # vh[v]
\* e reads local@domain.tld with three non-empty parts free of blanks and "@"
WellFormed(e) ==
  \E i, j \in 1..Len(e) :
    /\ 1 < i /\ i + 1 < j /\ j < Len(e)
    /\ e[i] = "@" /\ e[j] = "."
    /\ \A n \in 1..Len(e) : e[n] \notin {" ", "\t"} /\ (e[n] = "@" => n = i)
InvalidPage == [status |-> 200, page |-> "invalid", keys |-> <<>>]

\* C21: a request whose email (trimmed) is empty or malformed is answered
\* in the step of its arrival with the validation-error page; it issues no
\* provider call and the limiter's Map, and the record of allowed calls, are
\* as before.  Only such requests get that page.
C21_ValidationAtBoundary ==
  [][\A v \in Verifiers :
       VerifyArrives(v) =>
         /\ ~WellFormed(vh'[v].email)
              => /\ vh'[v].pc = "done"
                 /\ vh'[v].resp = InvalidPage
                 /\ vh'[v].calls = <<>>
                 /\ archiveRateLimit' = archiveRateLimit
                 /\ allowedLog' = allowedLog
         /\ vh'[v].resp = InvalidPage => ~WellFormed(vh'[v].email)]_vars

\* a text with a blank before the "@" is turned down after the limiter has
\* been used by valid requests
C21_Witness ==
  \E v \in Verifiers :
    /\ vh[v].pc = "done"
    /\ vh[v].email = <<"a", " ", "@", "x", ".", "y">>
    /\ vh[v].resp = InvalidPage
    /\ vh[v].calls = <<>>
    /\ archiveRateLimit # <<>>
    /\ vh[v].email \notin DOMAIN archiveRateLimit

RateLimitPage == [status |-> 429, page |-> "ratelimit", keys |-> <<>>]

\* C22: a request that the limiter denies (the identity has maxRequests
\* allowed calls within the window) is answered with status 429 in the step
\* of its arrival and issues no provider call; status 429 is given to no
\* other request.
C22_RateLimitRejection ==
  [][\A v \in Verifiers :
       VerifyArrives(v) =>
         LET e == vh'[v].email
             full == /\ e \in DOMAIN allowedLog
                     /\ Cardinality({i \in DOMAIN allowedLog[e] :
                                       now - allowedLog[e][i] < windowMs}) >= maxRequests
         IN /\ (WellFormed(e) /\ full)
                 => /\ vh'[v].pc = "done"
                    /\ vh'[v].resp = RateLimitPage
                    /\ vh'[v].calls = <<>>
            /\ vh'[v].resp.status = 429 => WellFormed(e) /\ full]_vars

\* the sixth request of an identity
C22_Witness ==
  \E v \in Verifiers :
    /\ vh[v].pc = "done"
    /\ vh[v].resp = RateLimitPage
    /\ vh[v].calls = <<>>
    /\ Len(allowedLog[vh[v].email]) = maxRequests
    /\ lastCall.key = vh[v].email
    /\ lastCall.allowed = FALSE


\* handler h serves a request that passed the signature check
Verified(h) == pc[h] # "idle" /\ req[h].sig = "good"
\* the event carries no buyer address in either field
NoBuyerEmail(id) ==
  Events[id].customer_details_email = "" /\ Events[id].customer_email = ""

\* C23: a verified purchase-completed event without buyer address causes
\* no transport call and no failed-notification record, and once its line
\* items have been listed it is committed: the id is in the store and the
\* answer is 200 (received).  The failed-notification log never holds a
\* record without address.
C23_MissingBuyerEmail ==
  /\ \A h \in Handlers :
       /\ Verified(h)
       /\ Events[req[h].id].type = "checkout.session.completed"
       /\ NoBuyerEmail(req[h].id)
       => /\ ~Has(trace[h], "fetch")
          /\ ~Has(trace[h], "recordFailedEmail")
          /\ ~Has(trace[h], "catalog")
          /\ mail[h] = NoMail
          /\ pc[h] \in {"lineItems", "done", "cut"}
          /\ (pc[h] = "done" /\ Has(trace[h], "listLineItems") /\ resp[h].status # 500)
               => /\ req[h].id \in processedFile
                  /\ resp[h] = ReceivedResp
                  /\ trace[h][Len(trace[h])] = "saveProcessedEvent"
  /\ \A i \in DOMAIN failedFile : failedFile[i].email # ""

\* the event without address is committed after its line items were listed
C23_Witness ==
  \E h \in Handlers :
    /\ Verified(h) /\ NoBuyerEmail(req[h].id)
    /\ pc[h] = "done"
    /\ trace[h] = <<"constructEvent", "loadProcessedEvents", "listLineItems",
                    "saveProcessedEvent">>
    /\ resp[h] = ReceivedResp
    /\ req[h].id \in processedFile

\* C24: a verified event of another type than checkout.session.completed
\* is answered 200 in the step of its arrival: when it was not processed
\* before, its handler only checks the signature, loads the store and saves
\* the id; it makes no provider call and no transport call, builds no
\* notification and writes no failed-notification record; the id is in the
\* store.
C24_OtherEventTypes ==
  \A h \in Handlers :
    Verified(h) /\ Events[req[h].id].type # "checkout.session.completed"
      => /\ pc[h] = "done"
         /\ resp[h].status = 200
         /\ req[h].id \in processedFile
         /\ mail[h] = NoMail
         /\ \/ /\ resp[h] = ReceivedResp
               /\ trace[h] = <<"constructEvent", "loadProcessedEvents",
                               "saveProcessedEvent">>
            \/ /\ resp[h] = AlreadyProcessedResp
               /\ trace[h] = <<"constructEvent", "loadProcessedEvents">>

\* an invoice event is acknowledged and recorded
C24_Witness ==
  \E h \in Handlers :
    /\ Verified(h)
    /\ Events[req[h].id].type = "invoice.paid"
    /\ resp[h] = ReceivedResp
    /\ trace[h] = <<"constructEvent", "loadProcessedEvents", "saveProcessedEvent">>
    /\ processedFile = {req[h].id}


\* the price ids of the catalog among the line items of the session at hand
MappedItems ==
  {p \in Range(session.lineItems) :
     p \in {"price_full_day", "price_practical", "price_image", "price_gas"}}
\* the place of a registration-link key in the alphabet
Letter(k) == CHOOSE i \in 1..6 : <<"A", "B", "C", "D", "E", "F">>[i] = k

C26_CatalogUnion ==
  notice # NoMail
    => /\ Range(notice.keys)
            = UNION {Range(ZOOM_LINK_MAP[p]) : p \in MappedItems} \cup {"F"}
       /\ \A i, j \in DOMAIN notice.keys :
            i < j => Letter(notice.keys[i]) < Letter(notice.keys[j])
       /\ (MappedItems = {"price_practical", "price_image"}
             => notice.keys = <<"C", "D", "F">>)

\* the item mapped to D, F comes before the item mapped to C, F
C26_Witness ==
  /\ session.lineItems = <<"price_image", "price_practical">>
  /\ notice.keys = <<"C", "D", "F">>


\* C27: the processed-event store only grows: every step of every
\* interleaving of deliveries, and a crash of the process, keeps each
\* recorded identifier in the store; and each recorded identifier is the id
\* of an event whose delivery passed the signature check and whose handler
\* made the saveProcessedEvent call.
C27_StoreOnlyGrows ==
  /\ [][processedFile \subseteq processedFile']_vars
  /\ [](\A id \in processedFile :
          \E h \in Handlers :
            /\ req[h].id = id
            /\ req[h].sig = "good"
            /\ Count(trace[h], "saveProcessedEvent") = 1
            /\ pc[h] = "done" /\ resp[h] = ReceivedResp)

\* two events recorded by two deliveries, one of them after a failed send
C27_Witness ==
  /\ Cardinality(processedFile) = 2
  /\ \E g, h \in Handlers :
       /\ req[g].id # req[h].id
       /\ {req[g].id, req[h].id} = processedFile
       /\ sendResult[g] = "threw"
       /\ Events[req[h].id].type = "invoice.paid"


\* the answer the provider's records of this moment call for
ExpectedPage(email) ==
  IF \E c \in Range(world.customers[email]) : CircleMember(c)
    THEN VideoPage(<<"A", "B", "C", "D", "E1", "E2", "F">>)
  ELSE IF world.customers[email] # <<>> THEN PageOf(CustomerKeys(email))
  ELSE PageOf(GuestKeys(email))
\* handler v ends a resolution in this step without a rejected call
CompletesCleanly(v) ==
  /\ vh[v].pc \notin {"idle", "done"}
  /\ vh'[v].pc = "done"
  /\ vh'[v].failed = {}

\* C28: the answer of a resolution whose calls all succeeded is determined
\* by the email and the provider's records of that time alone: whatever
\* requests were served before and whatever the records were before, it is
\* the page those records call for.  No step of a /archive/verify handler
\* changes the processed-event store or the failed-notification log.
C28_PureFunctionOfProvider ==
  [][/\ \A v \in Verifiers :
          CompletesCleanly(v) => vh'[v].resp = ExpectedPage(vh'[v].email)
     /\ vh' # vh => processedFile' = processedFile /\ failedFile' = failedFile]_vars

\* two resolutions of one address: the first found the membership, the
\* second, after the provider's records changed, no longer does
C28_Witness ==
  \E u, v \in Verifiers :
    /\ vh[u].pc = "done" /\ vh[v].pc = "done"
    /\ vh[u].email = vh[v].email
    /\ vh[u].failed = {} /\ vh[v].failed = {}
    /\ vh[u].resp = VideoPage(<<"A", "B", "C", "D", "E1", "E2", "F">>)
    /\ Issued(v, "customers.list")
    /\ vh[v].resp = NotFoundPage
    /\ ExpectedPage(vh[v].email) = NotFoundPage


\* the number of attempts handler h has started
Attempts(h) == Count(trace[h], "fetch")

\* C29: the waits of sendEmailWithRetry follow the sequence 1000 ms,
\* 2000 ms: the first failed attempt is followed by a timer of 1000 ms, the
\* second by one of 2000 ms, and the third (final) attempt by none.  A later
\* attempt starts only in the step in which the timer set after the failure
\* before it fires: while the timer is pending the handler is suspended and
\* has started no further attempt.
C29_BackoffSchedule ==
  /\ [](\A h \in Handlers :
          /\ Len(waits[h]) <= 2
          /\ \A i \in DOMAIN waits[h] : waits[h][i] = <<1000, 2000, 4000>>[i]
          /\ Len(waits[h]) = Count(trace[h], "wait")
          /\ pc[h] = "backoff" => Attempts(h) = Len(waits[h])
          /\ pc[h] = "fetch" => Attempts(h) = Len(waits[h]) + 1
          /\ Attempts(h) \in {Len(waits[h]), Len(waits[h]) + 1}
          /\ Attempts(h) = 0 => waits[h] = <<>>
          /\ sendResult[h] = "threw" => waits[h] = <<1000, 2000>> /\ Attempts(h) = 3)
  /\ [][\A h \in Handlers :
          /\ (Attempts(h) >= 1 /\ Count(trace'[h], "fetch") > Attempts(h))
               => /\ pc[h] = "backoff"
                  /\ trace[h][Len(trace[h])] = "wait"
                  /\ waits'[h] = waits[h]
          /\ Len(waits'[h]) > Len(waits[h])
               => /\ pc[h] = "fetch" /\ pc'[h] = "backoff"
                  /\ trace'[h] = Append(trace[h], "wait")]_vars

\* the third attempt has been started after waits of 1000 ms and 2000 ms
C29_Witness ==
  \E h \in Handlers :
    /\ pc[h] = "fetch"
    /\ Attempts(h) = 3
    /\ waits[h] = <<1000, 2000>>


\* the identity behind each spelling of the requests' emails
IdentityOf ==
  (<<"a", "@", "x", ".", "y">> :> "alice")
    @@ (<<" ", "A", "@", "X", ".", "y", " ">> :> "alice")
    @@ (<<"b", "@", "x", ".", "y">> :> "bob")

\* the Map keys that hold timestamps of identity p
KeysOf(m, p) ==
  {k \in DOMAIN m : k \in DOMAIN IdentityOf /\ IdentityOf[k] = p}

\* the timestamps the Map m holds for identity p that lie within the window
WindowOf(m, p, t) ==
  {ki \in (DOMAIN m) \X (1..(maxRequests + 1)) :
     /\ ki[1] \in KeysOf(m, p)
     /\ ki[2] \in DOMAIN m[ki[1]]
     /\ t - m[ki[1]][ki[2]] < windowMs}

\* C30: the limiter keeps one window per identity, whatever the spelling of
\* the email: every key of the Map is the spelling of an identity and no two
\* keys belong to one identity; a call is allowed exactly when the identity
\* of its email, under any spelling, has fewer than maxRequests timestamps
\* within the window; and a call changes neither the keys nor the
\* timestamps of any other identity.
C30_IdentityNormalisation ==
  /\ [](\A k \in DOMAIN archiveRateLimit :
          /\ k \in DOMAIN IdentityOf
          /\ KeysOf(archiveRateLimit, IdentityOf[k]) = {k})
  /\ [][IsCall =>
          LET p == IdentityOf[lastCall'.raw]
          IN /\ lastCall'.allowed
                  <=> Cardinality(WindowOf(archiveRateLimit, p, now)) < maxRequests
             /\ \A q \in Range(IdentityOf) \ {p} :
                  /\ KeysOf(archiveRateLimit', q) = KeysOf(archiveRateLimit, q)
                  /\ \A k \in KeysOf(archiveRateLimit, q) :
                       archiveRateLimit'[k] = archiveRateLimit[k]]_vars

\* a request spelled with capitals and blanks is denied on the strength of
\* the requests spelled plainly, while the other identity's window stands
C30_Witness ==
  /\ lastCall.raw = <<" ", "A", "@", "X", ".", "y", " ">>
  /\ lastCall.allowed = FALSE
  /\ \E k \in DOMAIN archiveRateLimit :
       /\ IdentityOf[k] = "alice"
       /\ Len(archiveRateLimit[k]) = maxRequests
       /\ \A i \in DOMAIN archiveRateLimit[k] : now - archiveRateLimit[k][i] < windowMs
  /\ \E k \in DOMAIN archiveRateLimit :
       /\ IdentityOf[k] = "bob"
       /\ archiveRateLimit[k] # <<>>


\* C31: a finished resolution answers with the not-found page only when no
\* key was found and no provider call was rejected; a resolution that found
\* no key and had a provider call rejected (the customer list, a
\* subscription list, a checkout-session list or a line-item fetch) is
\* answered with the server-error page and status 500.
C31_EscalationRule ==
  \A v \in Verifiers :
    vh[v].pc = "done" /\ Issued(v, "customers.list")
      => /\ vh[v].resp = NotFoundPage => vh[v].failed = {}
         /\ vh[v].resp.keys = <<>> /\ vh[v].failed # {}
              => vh[v].resp = ServerErrorPage


\* C34: every invocation of sendEmailWithRetry starts between 1 and 3
\* transport calls and, once it has ended (sent or thrown), starts no more;
\* a webhook request that has arrived is answered exactly once, with status
\* 200, 400 or 500: while every awaited call settles and every timer fires,
\* each request that has arrived eventually has its response, each
\* invocation of sendEmailWithRetry eventually ends, and a response once
\* sent is never replaced.
C34_BoundedTermination ==
  /\ [](\A h \in Handlers :
          /\ Attempts(h) <= 3
          /\ Has(trace[h], "catalog") /\ mail[h] # NoMail => Attempts(h) >= 1
          /\ sendResult[h] # "" => Attempts(h) \in 1..3 /\ pc[h] = "done"
          /\ resp[h].status \in {0, 200, 400, 500}
          /\ resp[h].status # 0 <=> pc[h] = "done")
  /\ [][\A h \in Handlers :
          /\ resp[h].status # 0 => resp'[h] = resp[h]
          /\ sendResult[h] # "" => trace'[h] = trace[h]]_vars
  /\ \A h \in Handlers :
       /\ (pc[h] # "idle") ~> (resp[h].status \in {200, 400, 500})
       /\ (pc[h] = "fetch") ~> (sendResult[h] \in {"sent", "threw"})

\* a request answered after three transport calls
C34_Witness ==
  \E h \in Handlers :
    /\ pc[h] = "done"
    /\ Attempts(h) = 3
    /\ sendResult[h] = "threw"
    /\ resp[h].status = 200


\* the event has a buyer address and none of its items is in the catalog
UnmappedPurchase(id) ==
  /\ Events[id].type = "checkout.session.completed"
  /\ ~NoBuyerEmail(id)
  /\ \A i \in DOMAIN Events[id].lineItems :
       Events[id].lineItems[i] \notin
         {"price_full_day", "price_practical", "price_image", "price_gas"}

\* C35: a verified purchase-completed event none of whose items is in the
\* catalog causes no transport call and builds no notification (the shared
\* key F alone does not make one), writes no failed-notification record,
\* and once its line items have been listed it is committed: the id is in
\* the store and the answer is 200 (received).
C35_UnmappedPurchase ==
  \A h \in Handlers :
    Verified(h) /\ UnmappedPurchase(req[h].id)
      => /\ ~Has(trace[h], "fetch")
         /\ ~Has(trace[h], "recordFailedEmail")
         /\ mail[h] = NoMail
         /\ sendResult[h] = ""
         /\ pc[h] \in {"lineItems", "done", "cut"}
         /\ \A i \in DOMAIN failedFile :
              failedFile[i].email # customerEmailOf(Events[req[h].id])
         /\ Has(trace[h], "catalog")
              => /\ pc[h] = "done"
                 /\ req[h].id \in processedFile
                 /\ resp[h] = ReceivedResp
                 /\ trace[h][Len(trace[h])] = "saveProcessedEvent"

\* the purchase of an unknown price was looked at and committed
C35_Witness ==
  \E h \in Handlers :
    /\ Verified(h) /\ UnmappedPurchase(req[h].id)
    /\ trace[h] = <<"constructEvent", "loadProcessedEvents", "listLineItems",
                    "catalog", "saveProcessedEvent">>
    /\ resp[h] = ReceivedResp
    /\ req[h].id \in processedFile
    /\ failedFile = <<>>


\* handler h wrote its event id to the store
Committed(h) == Count(trace[h], "saveProcessedEvent") = 1

\* C36: no update of the processed-event store is lost.  When two handlers
\* of distinct events have both committed, the store holds both ids, also
\* when the one loaded the store for its idempotency check before the other
\* committed; and the step in which a handler commits adds its id to the
\* store as it is at that moment and removes nothing.
C36_NoLostUpdate ==
  /\ [](\A g, h \in Handlers :
          Committed(g) /\ Committed(h) /\ req[g].id # req[h].id
            => {req[g].id, req[h].id} \subseteq processedFile)
  /\ [][\A h \in Handlers :
          ~Committed(h) /\ Count(trace'[h], "saveProcessedEvent") = 1
            => processedFile' = processedFile \cup {req'[h].id}]_vars

\* the earlier handler was still suspended when the later one loaded the
\* store, and the later one committed first or second: both ids are kept
C36_Witness ==
  \E g, h \in Handlers :
    /\ g < h
    /\ req[g].id # req[h].id
    /\ Committed(g) /\ Committed(h)
    /\ Has(trace[g], "fetch") /\ Has(trace[h], "listLineItems")
    /\ req[g].id \notin processedEvents[h]
    /\ processedFile = {req[g].id, req[h].id}


\* C37: every stored timestamp sequence has at most maxRequests entries and
\* is in non-decreasing order, no stored timestamp lies in the future, and
\* right after a call the sequence stored for the identity of the call holds
\* only timestamps younger than the window.
C37_WindowState ==
  /\ [](\A k \in DOMAIN archiveRateLimit :
          /\ Len(archiveRateLimit[k]) <= 5
          /\ \A i, j \in DOMAIN archiveRateLimit[k] :
               i < j => archiveRateLimit[k][i] <= archiveRateLimit[k][j]
          /\ \A i \in DOMAIN archiveRateLimit[k] : archiveRateLimit[k][i] <= now)
  /\ [][IsCall =>
          LET key == IF IdentityOf[lastCall'.raw] = "alice"
                       THEN <<"a", "@", "x", ".", "y">>
                     ELSE <<"b", "@", "x", ".", "y">>
          IN /\ key \in DOMAIN archiveRateLimit'
             /\ \A i \in DOMAIN archiveRateLimit'[key] :
                  now - archiveRateLimit'[key][i] < 10 * 60 * 1000]_vars

\* a call that dropped expired timestamps and stored a sequence of
\* timestamps of two different times
C37_Witness ==
  \E k \in DOMAIN archiveRateLimit :
    /\ lastCall.key = k
    /\ Len(archiveRateLimit[k]) >= 2
    /\ archiveRateLimit[k][1] > 0
    /\ archiveRateLimit[k][1] < archiveRateLimit[k][Len(archiveRateLimit[k])]
    /\ Len(allowedLog[k]) > Len(archiveRateLimit[k])


\* the customer list of the resolution of handler v was rejected
CustomerLookupFailed(v) == <<"customers.list", "email">> \in vh[v].failed

TokenAccepted(v) ==
  /\ body[v].firebaseToken \in {"tok_a", "tok_noemail"}
  /\ vh[v].pc # "token"
  /\ vh[v].resp.page # "authfailed"

\* C32: with Firebase configured, every email an /archive/verify handler of
\* the variant settles on comes from a verified identity token: the request
\* carries a token that verifyIdToken accepted and the email is the email
\* claim of that token; the email of the request body is used only without
\* Firebase.
C32_VerifiedEmailOnly ==
  \A v \in Verifiers :
    FIREBASE_CONFIG /\ vh[v].pc # "idle" /\ vh[v].email # NoEmail
      => /\ TokenAccepted(v)
         /\ body[v].firebaseToken = "tok_a"
         /\ vh[v].email = <<"a", "@", "x", ".", "y">>

\* handler record new has just issued the first provider call of a request
FirstCall(old, new) ==
  /\ old.pc \in {"idle", "done", "token"}
  /\ Len(new.calls) = 1
  /\ new.pc \notin {"idle", "done", "token"}

\* the limiter allowed a call for the email in this step
AllowedNow(email) ==
  /\ lastCall'.allowed
  /\ lastCall'.key = email
  /\ email \in DOMAIN allowedLog
  /\ allowedLog'[email] = Append(allowedLog[email], now)

\* C33: on every request path the first provider call of a request is
\* issued in a step in which the limiter allowed a call for the email of
\* the request, and provider calls are issued only by handlers of such
\* requests.
C33_LimiterFirst ==
  [][/\ \A v \in Verifiers :
          FirstCall(vh[v], vh'[v]) => AllowedNow(vh'[v].email)
     /\ FirstCall(dbg, dbg') => AllowedNow(dbg'.email)]_vars

AuthErrorPage == [status |-> 200, page |-> "authfailed", keys |-> <<>>]

\* C39: a request of the variant whose token verifyIdToken does not accept
\* is answered with the authentication error page when the verification
\* settles; that step leaves the limiter's Map unchanged, and the handler
\* has issued no provider call and settled on no email.  The
\* authentication error page is sent only from a pending verification.
C39_TokenRejected ==
  /\ [](\A v \in Verifiers :
          ( \/ vh[v].resp.page = "authfailed"
            \/ vh[v].pc = "token"
            \/ (FIREBASE_CONFIG /\ vh[v].pc # "idle"
                  /\ body[v].firebaseToken = "tok_forged") )
            => ( /\ vh[v].calls = <<>>
                 /\ vh[v].email = NoEmail
                 /\ vh[v].pc = "done" => vh[v].resp = AuthErrorPage ))
  /\ [][\A v \in Verifiers :
          vh'[v].resp.page = "authfailed" /\ vh'[v] # vh[v]
            => /\ vh[v].pc = "token"
               /\ archiveRateLimit' = archiveRateLimit
               /\ allowedLog' = allowedLog
               /\ lastCall' = lastCall]_vars

\* a forged token was turned away while the Map holds the timestamps of
\* earlier requests
C39_Witness ==
  \E v \in Verifiers :
    /\ FIREBASE_CONFIG
    /\ body[v].firebaseToken = "tok_forged"
    /\ vh[v].pc = "done"
    /\ vh[v].resp = AuthErrorPage
    /\ vh[v].calls = <<>>
    /\ \E k \in DOMAIN archiveRateLimit : archiveRateLimit[k] # <<>>

====
